---- MODULE Spec2Model ----
(***************************************************************************)
(* Streaming transport of Dual_Stream_LAN_Setup.                           *)
(*                                                                         *)
(*   sender   : data/scripts/sender_enhanced.py                            *)
(*              DualNetworkSender (two lanes + drain thread),              *)
(*              audio_capture_thread, stream_to_receiver (main loop with   *)
(*              the adaptive quality evaluation)                           *)
(*   receiver : data/scripts/receiver_with_audio_selection.py              *)
(*              NetworkReceiver.receive_exact and the receive loop of main *)
(*                                                                         *)
(* A queued packet of the sender is identified by the number of the        *)
(* send_video / send_audio call that produced it (the transport treats     *)
(* the packet as an opaque byte string).  On the receiver the byte stream  *)
(* is modelled byte by byte.                                               *)
(***************************************************************************)
EXTENDS Integers, Sequences, FiniteSets, TLC

VARIABLES
    \* ---- sender: DualNetworkSender
    video_queue,      \* self.video_queue : packets queued, oldest first
    audio_queue,      \* self.audio_queue
    stats,            \* self.stats
    sender_stop,      \* self.stop_event
    drainPc,          \* position of _sender_thread
    inflight,         \* packet taken by _sender_thread, handed to sendall
    video_written,    \* video packets sendall has written, in order
    audio_written,    \* audio-lane packets sendall has written, in order
    \* ---- sender: audio_capture_thread (the only caller of send_audio)
    audioPc,          \* position inside / between send_audio calls
    audio_calls,      \* number of send_audio calls started (= id of the newest)
    audioRes,         \* return value of the last finished send_audio call
    \* ---- sender: stream_to_receiver main loop
    mainPc,           \* "run" | "stopped"
    stop_event,       \* stop_event of stream_to_receiver
    video_calls,      \* number of send_video calls
    videoRes,         \* return value of the last send_video call
    frame_count,      \* frame_count
    quality,          \* quality
    evals,            \* number of one-second evaluations done
    window_base,      \* history: stats.video_dropped at the previous evaluation
    \* ---- receiver: the connection as seen by the receiver
    wire,             \* bytes the peer has sent and recv has not yet returned
    peer_closed,      \* the peer has closed its end of the connection
    sock_reset,       \* the connection was reset: recv raises
    \* ---- receiver: NetworkReceiver
    buffer,           \* self.buffer
    \* ---- receiver: receive loop of main
    rxPc,             \* "top" | "header" | "payload" | "exit" | "closed"
    rx_exit,          \* which break / loop exit ended the receive loop
    data_type,        \* data_type of the header being handled
    data_size,        \* data_size of the header being handled
    consecutive_errors,
    rstats,           \* stats of the session
    rx_stop,          \* stop_event of the session
    frame_queue,      \* frame_queue  (maxsize 5)
    rx_audio_queue,   \* audio_queue  (maxsize 30)
    audio_info_queue, \* audio_info_queue (maxsize 1)
    displayPc,        \* frame_display_thread: "run" | "exit"
    \* ---- receiver: history of the session
    sent_bytes,       \* every byte the peer has sent, in order
    sent_msgs,        \* the frames the peer has sent, in order
    delivered,        \* concatenation of the results of receive_exact
    last_call,        \* the last finished receive_exact call: n and result
    eof_seen,         \* recv has returned zero bytes
    dispatched,        \* (kind, payload) pairs that reached the dispatch by type
    \* ---- receiver: audio_playback_thread and the receive loop's audio side
    accepts,          \* the (rate, channels) pairs p.open accepts on the output device
    pbPc,             \* position of audio_playback_thread
    RATE,             \* RATE
    CHANNELS,         \* CHANNELS
    stream,           \* stream : the output handle, its state and its format
    stream_configured,\* stream_configured
    audio_buffer,     \* audio_buffer : deque(maxlen=20), oldest first
    pb_audio_info,    \* audio_info of the playback thread: the last one taken
    played,           \* history: every stream.write call, in order
    tried,            \* history: the candidates p.open was called with in the
                      \* last reconfiguration, in order
    neg_req,          \* history: (new_rate, new_channels) of the last reconfiguration
    reopens,          \* history: reconfigurations that closed the output and called p.open
    rx_audio_info,    \* audio_info of the receive loop: the last one unpacked
    \* ---- receiver: the accept loop of main
    client_sock,      \* client_sock of the session: "open" | "closed"
    sessions,         \* number of connections accepted so far
    stale,            \* history: threads of earlier sessions that were still
                      \* running when a later connection was accepted
    \* ---- sender: stream_to_receiver around the main loop
    setupPc,          \* "start" | "capture" | "connect" | "connected" |
                      \* "finally" | "returned"
    camera,           \* camera: "none" | "created" | "started" | "stopped"
    snd_sock,         \* sock: "none" | "open" | "closed"
    connect_res,      \* outcome of sock.connect: "none" | "ok" | "refused" | "timeout"
    snd_ret,          \* how stream_to_receiver ended: "none" | "True" | "False" |
                      \* "raised"
    snd_sessions,     \* number of stream_to_receiver calls so far
    \* ---- settings_manager.py: SettingsManager
    defaults,         \* self.defaults; ip_history is the one list object it holds
    settings,         \* self.settings; shared: settings['ip_history'] is the
                      \* very list object of defaults['ip_history']
    config_file,      \* stream_config.json: whether it exists, and its content
    sm_op,            \* the last SettingsManager call (history variable)
    sm_calls          \* number of SettingsManager calls so far

senderVars == <<video_queue, audio_queue, stats, sender_stop, drainPc, inflight,
                video_written, audio_written, audioPc, audio_calls, audioRes,
                mainPc, stop_event, video_calls, videoRes, frame_count,
                quality, evals, window_base>>

recvVars == <<wire, peer_closed, sock_reset, buffer, rxPc, rx_exit, data_type,
              data_size, consecutive_errors, rstats, rx_stop, frame_queue,
              rx_audio_queue, audio_info_queue, displayPc, sent_bytes, sent_msgs,
              delivered, last_call, eof_seen, dispatched>>

pbVars == <<accepts, pbPc, RATE, CHANNELS, stream, stream_configured, audio_buffer,
            pb_audio_info, played, tried, neg_req, reopens, rx_audio_info>>

sessVars == <<client_sock, sessions, stale, setupPc, camera, snd_sock,
              connect_res, snd_ret, snd_sessions>>

cfgVars == <<defaults, settings, config_file, sm_op, sm_calls>>

vars == <<senderVars, recvVars, pbVars, sessVars, cfgVars>>

(***************************************************************************)
(* Program constants                                                       *)
(***************************************************************************)
VideoMaxsize == 5
AudioMaxsize == 30
InitialQuality == 85
min_quality == 60
max_quality == 95

(***************************************************************************)
(* Bounds of the model                                                     *)
(***************************************************************************)
MaxVideoCalls == 6     \* send_video calls in a session with audio
MaxAudioCalls == 32    \* send_audio calls (the first is the AudioInfo packet)
MaxVideoCallsQ == 11   \* send_video calls in a session without audio
MaxEvals == 7          \* one-second evaluations

NoPacket == <<"none", 0>>

(***************************************************************************)
(* DualNetworkSender.__init__ and the locals of stream_to_receiver         *)
(***************************************************************************)
SenderInit ==
    /\ video_queue = <<>>
    /\ audio_queue = <<>>
    /\ stats = [video_sent |-> 0, audio_sent |-> 0,
                video_dropped |-> 0, audio_dropped |-> 0]
    /\ sender_stop = FALSE
    /\ drainPc = "poll"
    /\ inflight = NoPacket
    /\ video_written = <<>>
    /\ audio_written = <<>>
    /\ audioPc = "start"
    /\ audio_calls = 0
    /\ audioRes = "none"
    /\ mainPc = "run"
    /\ stop_event = FALSE
    /\ video_calls = 0
    /\ videoRes = "none"
    /\ frame_count = 0
    /\ quality = InitialQuality
    /\ evals = 0
    /\ window_base = 0


drainVars == <<drainPc, inflight, video_written, audio_written>>
audioThreadVars == <<audioPc, audio_calls, audioRes>>
mainVars == <<mainPc, stop_event, video_calls, videoRes, frame_count,
              quality, evals, window_base>>

(***************************************************************************)
(* _sender_thread                                                          *)
(***************************************************************************)
\* while not self.stop_event.is_set(): the loop condition fails
D_Exit ==
    /\ setupPc = "connected"
    /\ drainPc = "poll"
    /\ sender_stop
    /\ drainPc' = "exit"
    /\ UNCHANGED <<video_queue, audio_queue, stats, sender_stop, inflight,
                   video_written, audio_written, audioThreadVars, mainVars>>
    /\ UNCHANGED <<recvVars, pbVars, sessVars, cfgVars>>

\* audio_queue.get_nowait() returns a packet
D_TakeAudio ==
    /\ setupPc = "connected"
    /\ drainPc = "poll"
    /\ ~sender_stop
    /\ audio_queue # <<>>
    /\ inflight' = <<"audio", Head(audio_queue)>>
    /\ audio_queue' = Tail(audio_queue)
    /\ drainPc' = "audio_write"
    /\ UNCHANGED <<video_queue, stats, sender_stop, video_written, audio_written,
                   audioThreadVars, mainVars>>
    /\ UNCHANGED <<recvVars, pbVars, sessVars, cfgVars>>

\* (mutant) the audio poll result is ignored: the loop goes on to the video lane
D_AudioEmpty_Skip ==
    /\ drainPc = "poll"
    /\ ~sender_stop
    /\ drainPc' = "video_wait"
    /\ UNCHANGED <<video_queue, audio_queue, stats, sender_stop, inflight,
                   video_written, audio_written, audioThreadVars, mainVars>>
    /\ UNCHANGED <<recvVars, pbVars, sessVars, cfgVars>>

\* (mutant) an empty audio lane is polled again: the video lane is never served
D_AudioEmpty_Repoll ==
    /\ drainPc = "poll"
    /\ ~sender_stop
    /\ audio_queue = <<>>
    /\ drainPc' = "poll"
    /\ UNCHANGED <<video_queue, audio_queue, stats, sender_stop, inflight,
                   video_written, audio_written, audioThreadVars, mainVars>>
    /\ UNCHANGED <<recvVars, pbVars, sessVars, cfgVars>>

\* audio_queue.get_nowait() raises queue.Empty: go on to the video lane
D_AudioEmpty ==
    /\ setupPc = "connected"
    /\ drainPc = "poll"
    /\ ~sender_stop
    /\ audio_queue = <<>>
    /\ drainPc' = "video_wait"
    /\ UNCHANGED <<video_queue, audio_queue, stats, sender_stop, inflight,
                   video_written, audio_written, audioThreadVars, mainVars>>
    /\ UNCHANGED <<recvVars, pbVars, sessVars, cfgVars>>

\* (mutant) the newest frame of the lane is taken
D_TakeVideo_Newest ==
    /\ drainPc = "video_wait"
    /\ video_queue # <<>>
    /\ inflight' = <<"video", video_queue[Len(video_queue)]>>
    /\ video_queue' = SubSeq(video_queue, 1, Len(video_queue) - 1)
    /\ drainPc' = "video_write"
    /\ UNCHANGED <<audio_queue, stats, sender_stop, video_written, audio_written,
                   audioThreadVars, mainVars>>
    /\ UNCHANGED <<recvVars, pbVars, sessVars, cfgVars>>

\* video_queue.get(timeout=0.01) returns a packet
D_TakeVideo ==
    /\ setupPc = "connected"
    /\ drainPc = "video_wait"
    /\ video_queue # <<>>
    /\ inflight' = <<"video", Head(video_queue)>>
    /\ video_queue' = Tail(video_queue)
    /\ drainPc' = "video_write"
    /\ UNCHANGED <<audio_queue, stats, sender_stop, video_written, audio_written,
                   audioThreadVars, mainVars>>
    /\ UNCHANGED <<recvVars, pbVars, sessVars, cfgVars>>

\* video_queue.get(timeout=0.01) raises queue.Empty after 10 ms
D_VideoTimeout ==
    /\ setupPc = "connected"
    /\ drainPc = "video_wait"
    /\ video_queue = <<>>
    /\ drainPc' = "poll"
    /\ UNCHANGED <<video_queue, audio_queue, stats, sender_stop, inflight,
                   video_written, audio_written, audioThreadVars, mainVars>>
    /\ UNCHANGED <<recvVars, pbVars, sessVars, cfgVars>>

\* (mutant) no `continue` after the audio write: the video lane is looked at
D_WriteAudio_NoContinue ==
    /\ drainPc = "audio_write"
    /\ audio_written' = Append(audio_written, inflight[2])
    /\ stats' = [stats EXCEPT !.audio_sent = @ + 1]
    /\ inflight' = NoPacket
    /\ drainPc' = "video_wait"
    /\ UNCHANGED <<video_queue, audio_queue, sender_stop, video_written,
                   audioThreadVars, mainVars>>
    /\ UNCHANGED <<recvVars, pbVars, sessVars, cfgVars>>

\* sock.sendall(audio_data) succeeds; stats['audio_sent'] += 1; continue
D_WriteAudio ==
    /\ setupPc = "connected"
    /\ drainPc = "audio_write"
    /\ audio_written' = Append(audio_written, inflight[2])
    /\ stats' = [stats EXCEPT !.audio_sent = @ + 1]
    /\ inflight' = NoPacket
    /\ drainPc' = "poll"
    /\ UNCHANGED <<video_queue, audio_queue, sender_stop, video_written,
                   audioThreadVars, mainVars>>
    /\ UNCHANGED <<recvVars, pbVars, sessVars, cfgVars>>

\* (mutant) a written frame is not counted in video_sent
D_WriteVideo_NoCount ==
    /\ drainPc = "video_write"
    /\ video_written' = Append(video_written, inflight[2])
    /\ inflight' = NoPacket
    /\ drainPc' = "poll"
    /\ UNCHANGED <<video_queue, audio_queue, stats, sender_stop, audio_written,
                   audioThreadVars, mainVars>>
    /\ UNCHANGED <<recvVars, pbVars, sessVars, cfgVars>>

\* sock.sendall(video_data) succeeds; stats['video_sent'] += 1
D_WriteVideo ==
    /\ setupPc = "connected"
    /\ drainPc = "video_write"
    /\ video_written' = Append(video_written, inflight[2])
    /\ stats' = [stats EXCEPT !.video_sent = @ + 1]
    /\ inflight' = NoPacket
    /\ drainPc' = "poll"
    /\ UNCHANGED <<video_queue, audio_queue, sender_stop, audio_written,
                   audioThreadVars, mainVars>>
    /\ UNCHANGED <<recvVars, pbVars, sessVars, cfgVars>>

\* sock.sendall raises: except Exception -> print, break.  Nothing else is done.
D_WriteFail ==
    /\ setupPc = "connected"
    /\ drainPc \in {"audio_write", "video_write"}
    /\ drainPc' = "failed"
    /\ UNCHANGED <<video_queue, audio_queue, stats, sender_stop, inflight,
                   video_written, audio_written, audioThreadVars, mainVars>>
    /\ UNCHANGED <<recvVars, pbVars, sessVars, cfgVars>>

(***************************************************************************)
(* send_video, called by the main loop of stream_to_receiver               *)
(***************************************************************************)
\* (mutant) the lane's maxsize is not enforced
M_SendVideo_NoLimit(max) ==
    /\ mainPc = "run"
    /\ video_calls < max
    /\ video_calls' = video_calls + 1
    /\ video_queue' = Append(video_queue, video_calls + 1)
    /\ videoRes' = "True"
    /\ frame_count' = frame_count + 1
    /\ UNCHANGED <<audio_queue, stats, sender_stop, drainVars, audioThreadVars,
                   mainPc, stop_event, quality, evals, window_base>>
    /\ UNCHANGED <<recvVars, pbVars, sessVars, cfgVars>>

\* (mutant) a full video lane evicts its oldest frame, as the audio lane does
M_SendVideo_EvictOldest(max) ==
    /\ mainPc = "run"
    /\ video_calls < max
    /\ video_calls' = video_calls + 1
    /\ IF Len(video_queue) < VideoMaxsize
         THEN /\ video_queue' = Append(video_queue, video_calls + 1)
              /\ UNCHANGED stats
         ELSE /\ video_queue' = Append(Tail(video_queue), video_calls + 1)
              /\ stats' = [stats EXCEPT !.video_dropped = @ + 1]
    /\ videoRes' = "True"
    /\ frame_count' = frame_count + 1
    /\ UNCHANGED <<audio_queue, sender_stop, drainVars, audioThreadVars,
                   mainPc, stop_event, quality, evals, window_base>>
    /\ UNCHANGED <<recvVars, pbVars, sessVars, cfgVars>>

M_SendVideo(max) ==
    /\ setupPc = "connected"
    /\ mainPc = "run"
    /\ video_calls < max
    /\ video_calls' = video_calls + 1
    /\ IF Len(video_queue) < VideoMaxsize
         THEN \* put_nowait succeeds; return True; frame_count += 1
              /\ video_queue' = Append(video_queue, video_calls + 1)
              /\ videoRes' = "True"
              /\ frame_count' = frame_count + 1
              /\ UNCHANGED stats
         ELSE \* queue.Full: stats['video_dropped'] += 1; return False
              /\ stats' = [stats EXCEPT !.video_dropped = @ + 1]
              /\ videoRes' = "False"
              /\ UNCHANGED <<video_queue, frame_count>>
    /\ UNCHANGED <<audio_queue, sender_stop, drainVars, audioThreadVars,
                   mainPc, stop_event, quality, evals, window_base>>
    /\ UNCHANGED <<recvVars, pbVars, sessVars, cfgVars>>

(***************************************************************************)
(* The per-second quality adjustment of the main loop                     *)
(***************************************************************************)
AdjustQuality(q, dropped) ==
    IF dropped > 5 /\ q > min_quality THEN q - 5
    ELSE IF dropped = 0 /\ q < max_quality THEN q + 2
    ELSE q

\* (mutant) the evaluation looks at the frames dropped since the last one
M_Eval_Windowed ==
    /\ mainPc = "run"
    /\ evals < MaxEvals
    /\ evals' = evals + 1
    /\ quality' = AdjustQuality(quality, stats.video_dropped - window_base)
    /\ window_base' = stats.video_dropped
    /\ UNCHANGED <<video_queue, audio_queue, stats, sender_stop, drainVars,
                   audioThreadVars, mainPc, stop_event, video_calls, videoRes,
                   frame_count>>
    /\ UNCHANGED <<recvVars, pbVars, sessVars, cfgVars>>

\* current_time - fps_timer >= 1.0: stats = sender.get_stats(); adjust
M_Eval ==
    /\ setupPc = "connected"
    /\ mainPc = "run"
    /\ evals < MaxEvals
    /\ evals' = evals + 1
    /\ quality' = AdjustQuality(quality, stats.video_dropped)
    /\ window_base' = stats.video_dropped
    /\ UNCHANGED <<video_queue, audio_queue, stats, sender_stop, drainVars,
                   audioThreadVars, mainPc, stop_event, video_calls, videoRes,
                   frame_count>>
    /\ UNCHANGED <<recvVars, pbVars, sessVars, cfgVars>>

\* KeyboardInterrupt or another exception in the main loop; finally:
\* stop_event.set(); sender.stop()
M_Stop ==
    /\ setupPc = "connected"
    /\ mainPc = "run"
    /\ mainPc' = "stopped"
    /\ stop_event' = TRUE
    /\ sender_stop' = TRUE
    /\ UNCHANGED <<video_queue, audio_queue, stats, drainVars, audioThreadVars,
                   video_calls, videoRes, frame_count, quality, evals, window_base>>
    /\ UNCHANGED <<recvVars, pbVars, sessVars, cfgVars>>

(***************************************************************************)
(* audio_capture_thread and send_audio                                     *)
(***************************************************************************)
\* send_audio(info_packet) before the loop, send_audio(packet) inside it:
\* try: self.audio_queue.put_nowait(data); return True / except queue.Full
\* (mutant) the lane's maxsize is not enforced
A_Put_NoLimit ==
    /\ audioPc \in {"start", "between"}
    /\ audioPc = "between" => ~stop_event
    /\ audio_calls < MaxAudioCalls
    /\ audio_calls' = audio_calls + 1
    /\ audio_queue' = Append(audio_queue, audio_calls + 1)
    /\ audioRes' = "True"
    /\ audioPc' = "between"
    /\ UNCHANGED <<video_queue, stats, sender_stop, drainVars, mainVars>>
    /\ UNCHANGED <<recvVars, pbVars, sessVars, cfgVars>>

A_Put ==
    /\ setupPc = "connected"
    /\ audioPc \in {"start", "between"}
    /\ audioPc = "between" => ~stop_event
    /\ audio_calls < MaxAudioCalls
    /\ audio_calls' = audio_calls + 1
    /\ IF Len(audio_queue) < AudioMaxsize
         THEN /\ audio_queue' = Append(audio_queue, audio_calls + 1)
              /\ audioRes' = "True"
              /\ audioPc' = "between"
         ELSE /\ audioPc' = "evict_get"
              /\ audioRes' = "none"
              /\ UNCHANGED audio_queue
    /\ UNCHANGED <<video_queue, stats, sender_stop, drainVars, mainVars>>
    /\ UNCHANGED <<recvVars, pbVars, sessVars, cfgVars>>

\* except queue.Full: try: self.audio_queue.get_nowait()
\*   queue.Empty is caught by the bare except: return False
A_EvictGet ==
    /\ setupPc = "connected"
    /\ audioPc = "evict_get"
    /\ IF audio_queue # <<>>
         THEN /\ audio_queue' = Tail(audio_queue)
              /\ audioPc' = "evict_put"
              /\ UNCHANGED audioRes
         ELSE /\ audioPc' = "between"
              /\ audioRes' = "False"
              /\ UNCHANGED audio_queue
    /\ UNCHANGED <<video_queue, stats, sender_stop, drainVars, audio_calls, mainVars>>
    /\ UNCHANGED <<recvVars, pbVars, sessVars, cfgVars>>

\* self.audio_queue.put_nowait(data); stats['audio_dropped'] += 1; return True
\*   queue.Full is caught by the bare except: return False
A_EvictPut ==
    /\ setupPc = "connected"
    /\ audioPc = "evict_put"
    /\ IF Len(audio_queue) < AudioMaxsize
         THEN /\ audio_queue' = Append(audio_queue, audio_calls)
              /\ stats' = [stats EXCEPT !.audio_dropped = @ + 1]
              /\ audioRes' = "True"
         ELSE /\ audioRes' = "False"
              /\ UNCHANGED <<audio_queue, stats>>
    /\ audioPc' = "between"
    /\ UNCHANGED <<video_queue, sender_stop, drainVars, audio_calls, mainVars>>
    /\ UNCHANGED <<recvVars, pbVars, sessVars, cfgVars>>

\* while not stop_event.is_set(): the capture loop ends
A_Exit ==
    /\ setupPc = "connected"
    /\ audioPc = "between"
    /\ stop_event
    /\ audioPc' = "exit"
    /\ UNCHANGED <<video_queue, audio_queue, stats, sender_stop, drainVars,
                   audio_calls, audioRes, mainVars>>
    /\ UNCHANGED <<recvVars, pbVars, sessVars, cfgVars>>

(***************************************************************************)
(* Wire format: struct.pack('<4scI', b'SYNC', kind, len(data)) + data      *)
(***************************************************************************)
SYNC == <<83, 89, 78, 67>>          \* b'SYNC'
KindV == 86                         \* b'V'
KindA == 65                         \* b'A'
KindI == 73                         \* b'I'
\* (mutant) the cap is one byte too low
MaxPacket_OneLess == 10 * 1024 * 1024 - 1
MaxPacket == 10 * 1024 * 1024       \* data_size > 10 * 1024 * 1024 is rejected
RecvChunk == 65536                  \* sock.recv(65536)
FrameMaxsize == 5                   \* frame_queue = queue.Queue(maxsize=5)
RxAudioMaxsize == 30                \* audio_queue = queue.Queue(maxsize=30)

\* '<I': a 32-bit unsigned integer, least significant byte first
PackU32(n) ==
    <<n % 256, (n \div 256) % 256, (n \div 65536) % 256, (n \div 16777216) % 256>>

UnpackU32(b) == b[1] + 256 * b[2] + 65536 * b[3] + 16777216 * b[4]

\* header = struct.pack('<4scI', b'SYNC', kind, len(data)); packet = header + data
Pack(kind, data) == SYNC \o <<kind>> \o PackU32(Len(data)) \o data

\* struct.pack('<4scIIII', b'SYNC', b'I', 12, RATE, CHANNELS, 16) without its header
InfoPayload(rate, channels, bits) == PackU32(rate) \o PackU32(channels) \o PackU32(bits)

\* (mutant) the magic is not looked at
UnpackHeader_AnyMagic(h) ==
    [sync |-> SYNC, data_type |-> h[5], data_size |-> UnpackU32(SubSeq(h, 6, 9))]

\* sync, data_type, data_size = struct.unpack('<4scI', header)
UnpackHeader(h) ==
    [sync |-> SubSeq(h, 1, 4), data_type |-> h[5], data_size |-> UnpackU32(SubSeq(h, 6, 9))]

(***************************************************************************)
(* Bounds of the receiver model, and what the peer may put on the wire     *)
(***************************************************************************)
MaxFrames == 2         \* frames the peer sends in a session

Payloads == {<<>>, <<7, 8>>}

WellFormedFrames ==
    [form : {"ok"}, kind : {KindV, KindA, KindI}, payload : Payloads]
    \cup {[form |-> "ok", kind |-> KindI, payload |-> InfoPayload(48000, 2, 16)]}

MalformedFrames ==
    { [form |-> "bad_magic", kind |-> KindV, payload |-> <<>>],
      [form |-> "bad_kind", kind |-> 88, payload |-> <<7, 8>>],
      [form |-> "oversize", kind |-> KindV, payload |-> <<>>],
      [form |-> "at_cap", kind |-> KindV, payload |-> <<>>] }

PeerFrames == WellFormedFrames \cup MalformedFrames

\* the bytes of a frame on the wire
FrameBytes(f) ==
    CASE f.form = "bad_magic" -> <<83, 89, 78, 88>> \o <<f.kind>> \o PackU32(2)
      [] f.form = "oversize"  -> SYNC \o <<f.kind>> \o PackU32(10485761)
      [] f.form = "at_cap"    -> SYNC \o <<f.kind>> \o PackU32(10485760)
      [] OTHER                -> Pack(f.kind, f.payload)

Min(a, b) == IF a < b THEN a ELSE b

(***************************************************************************)
(* Receiver session: state after accept (main, lines 396-443)              *)
(***************************************************************************)
RecvInit ==
    /\ wire = <<>>
    /\ peer_closed = FALSE
    /\ sock_reset = FALSE
    /\ buffer = <<>>
    /\ rxPc = "top"
    /\ rx_exit = "none"
    /\ data_type = 0
    /\ data_size = 0
    /\ consecutive_errors = 0
    /\ rstats = [video_received |-> 0, audio_received |-> 0,
                 sync_errors |-> 0, packets_dropped |-> 0]
    /\ rx_stop = FALSE
    /\ frame_queue = <<>>
    /\ rx_audio_queue = <<>>
    /\ audio_info_queue = <<>>
    /\ displayPc = "top"
    /\ sent_bytes = <<>>
    /\ sent_msgs = <<>>
    /\ delivered = <<>>
    /\ last_call = [n |-> 0, data |-> <<>>, eof |-> FALSE]
    /\ eof_seen = FALSE
    /\ dispatched = <<>>

\* audio_playback_thread before its first statement; no format unpacked yet
NoInfo == [rate |-> 0, channels |-> 0, bits |-> 0, seq |-> 0]
NoStream == [state |-> "none", rate |-> 0, channels |-> 0]

PlaybackInit ==
    /\ accepts = {}
    /\ pbPc = "start"
    /\ RATE = 0
    /\ CHANNELS = 0
    /\ stream = NoStream
    /\ stream_configured = FALSE
    /\ audio_buffer = <<>>
    /\ pb_audio_info = NoInfo
    /\ played = <<>>
    /\ tried = <<>>
    /\ neg_req = <<>>
    /\ reopens = 0
    /\ rx_audio_info = NoInfo

\* a connection has been accepted and a stream has been connected
SessionInit ==
    /\ client_sock = "open"
    /\ sessions = 1
    /\ stale = {}
    /\ setupPc = "connected"
    /\ camera = "started"
    /\ snd_sock = "open"
    /\ connect_res = "ok"
    /\ snd_ret = "none"
    /\ snd_sessions = 1

\* 'receiver_ip': None
NoIp == 0

\* no stream_config.json in the config directory
NoFile == [exists |-> FALSE, receiver_ip |-> NoIp, first_run |-> TRUE,
           ip_history |-> <<>>]

\* self.defaults = {...}: a new dictionary, and a new empty list, per instance
FreshDefaults == [receiver_ip |-> NoIp, first_run |-> TRUE, ip_history |-> <<>>]

\* self.defaults.copy(): a shallow copy, so the copy's 'ip_history' is the list
\* object of the defaults
DefaultsCopy(d) ==
    [receiver_ip |-> d.receiver_ip, first_run |-> d.first_run,
     ip_history |-> d.ip_history, shared |-> TRUE]

\* load_settings: without a file the shallow copy of the defaults; with a file
\* the copy updated with the loaded keys (save_settings writes every key, so
\* 'ip_history' is a list json.load created)
load_settings(d, file) ==
    IF ~file.exists
      THEN DefaultsCopy(d)
      ELSE [receiver_ip |-> file.receiver_ip, first_run |-> file.first_run,
            ip_history |-> file.ip_history, shared |-> FALSE]

\* SettingsManager() on an installation that has no stream_config.json yet
SettingsInit ==
    /\ defaults = FreshDefaults
    /\ config_file = NoFile
    /\ settings = load_settings(FreshDefaults, NoFile)
    /\ sm_op = "__init__"
    /\ sm_calls = 0

Init == SenderInit /\ RecvInit /\ PlaybackInit /\ SessionInit /\ SettingsInit

connVars == <<wire, peer_closed, sock_reset>>
histVars == <<sent_bytes, sent_msgs>>
laneVars == <<frame_queue, rx_audio_queue, audio_info_queue>>

(***************************************************************************)
(* The peer and the connection                                             *)
(***************************************************************************)
\* the peer writes one frame to the connection
P_SendUpTo(f, max) ==
    /\ ~peer_closed /\ ~sock_reset
    /\ rxPc # "closed"
    /\ Len(sent_msgs) < max
    /\ wire' = wire \o FrameBytes(f)
    /\ sent_bytes' = sent_bytes \o FrameBytes(f)
    /\ sent_msgs' = Append(sent_msgs, f)
    /\ UNCHANGED <<peer_closed, sock_reset, buffer, rxPc, rx_exit, data_type, data_size,
                   consecutive_errors, rstats, rx_stop, laneVars, displayPc,
                   delivered, last_call, eof_seen, dispatched>>
    /\ UNCHANGED <<senderVars, pbVars, sessVars, cfgVars>>

P_Send(f) == P_SendUpTo(f, MaxFrames)

\* the peer closes the connection: recv returns b'' once the wire is drained
P_Close ==
    /\ ~peer_closed /\ ~sock_reset
    /\ peer_closed' = TRUE
    /\ UNCHANGED <<wire, sock_reset, buffer, rxPc, rx_exit, data_type, data_size,
                   consecutive_errors, rstats, rx_stop, laneVars, displayPc,
                   histVars, delivered, last_call, eof_seen, dispatched>>
    /\ UNCHANGED <<senderVars, pbVars, sessVars, cfgVars>>

\* the connection is reset: every later recv raises
P_Reset ==
    /\ ~peer_closed /\ ~sock_reset
    /\ rxPc # "closed"
    /\ sock_reset' = TRUE
    /\ UNCHANGED <<wire, peer_closed, buffer, rxPc, rx_exit, data_type, data_size,
                   consecutive_errors, rstats, rx_stop, laneVars, displayPc,
                   histVars, delivered, last_call, eof_seen, dispatched>>
    /\ UNCHANGED <<senderVars, pbVars, sessVars, cfgVars>>

(***************************************************************************)
(* NetworkReceiver.receive_exact                                           *)
(***************************************************************************)
\* num_bytes of the receive_exact call in progress
Need == IF rxPc = "header" THEN 9 ELSE data_size

\* (mutant) the whole buffer is handed out and nothing is retained
TakeExact_All(buf, n) == <<buf, <<>>>>

\* data = self.buffer[:num_bytes]; self.buffer = self.buffer[num_bytes:]
TakeExact(buf, n) == <<SubSeq(buf, 1, n), SubSeq(buf, n + 1, Len(buf))>>

\* while len(self.buffer) < num_bytes: chunk = self.sock.recv(65536);
\* self.buffer += chunk      (recv returns any non-empty part of what is there)
R_Recv ==
    /\ rxPc \in {"header", "payload"}
    /\ Len(buffer) < Need
    /\ ~sock_reset
    /\ wire # <<>>
    /\ \E k \in 1..Min(Len(wire), RecvChunk) :
          /\ buffer' = buffer \o SubSeq(wire, 1, k)
          /\ wire' = SubSeq(wire, k + 1, Len(wire))
    /\ UNCHANGED <<peer_closed, sock_reset, rxPc, rx_exit, data_type, data_size,
                   consecutive_errors, rstats, rx_stop, laneVars, displayPc,
                   histVars, delivered, last_call, eof_seen, dispatched>>
    /\ UNCHANGED <<senderVars, pbVars, sessVars, cfgVars>>

\* (mutant) an empty read does not end the loop: the next iteration reads again
R_RecvEof_Continue ==
    /\ rxPc \in {"header", "payload"}
    /\ Len(buffer) < Need
    /\ ~sock_reset
    /\ wire = <<>>
    /\ peer_closed
    /\ eof_seen' = TRUE
    /\ last_call' = [n |-> Need, data |-> <<>>, eof |-> TRUE]
    /\ rx_exit' = rx_exit
    /\ rxPc' = "top"
    /\ UNCHANGED <<connVars, buffer, data_type, data_size, consecutive_errors,
                   rstats, rx_stop, laneVars, displayPc, histVars, delivered,
                   dispatched>>
    /\ UNCHANGED <<senderVars, pbVars, sessVars, cfgVars>>

\* chunk == b'': receive_exact returns None; `if not header` / `if not data`: break
R_RecvEof ==
    /\ rxPc \in {"header", "payload"}
    /\ Len(buffer) < Need
    /\ ~sock_reset
    /\ wire = <<>>
    /\ peer_closed
    /\ eof_seen' = TRUE
    /\ last_call' = [n |-> Need, data |-> <<>>, eof |-> TRUE]
    /\ rx_exit' = IF rxPc = "header" THEN "eof_header" ELSE "eof_payload"
    /\ rxPc' = "exit"
    /\ UNCHANGED <<connVars, buffer, data_type, data_size, consecutive_errors,
                   rstats, rx_stop, laneVars, displayPc, histVars, delivered,
                   dispatched>>
    /\ UNCHANGED <<senderVars, pbVars, sessVars, cfgVars>>

\* recv raises: except Exception: consecutive_errors += 1; if > 10: break
R_RecvRaise ==
    /\ rxPc \in {"header", "payload"}
    /\ Len(buffer) < Need
    /\ sock_reset
    /\ consecutive_errors' = consecutive_errors + 1
    /\ IF consecutive_errors + 1 > 10
         THEN rxPc' = "exit" /\ rx_exit' = "errors"
         ELSE rxPc' = "top" /\ UNCHANGED rx_exit
    /\ UNCHANGED <<connVars, buffer, data_type, data_size, rstats, rx_stop, laneVars,
                   displayPc, histVars, delivered, last_call, eof_seen, dispatched>>
    /\ UNCHANGED <<senderVars, pbVars, sessVars, cfgVars>>

(***************************************************************************)
(* The receive loop of main                                                *)
(***************************************************************************)
\* while not stop_event.is_set():
R_Top ==
    /\ rxPc = "top"
    /\ IF rx_stop THEN rxPc' = "exit" /\ rx_exit' = "stop"
                  ELSE rxPc' = "header" /\ UNCHANGED rx_exit
    /\ UNCHANGED <<connVars, buffer, data_type, data_size, consecutive_errors,
                   rstats, rx_stop, laneVars, displayPc, histVars, delivered,
                   last_call, eof_seen, dispatched>>
    /\ UNCHANGED <<senderVars, pbVars, sessVars, cfgVars>>

\* header = receiver.receive_exact(9) returns; unpack; validate sync and size
R_Header ==
    /\ rxPc = "header"
    /\ Len(buffer) >= 9
    /\ LET t == TakeExact(buffer, 9)
           h == UnpackHeader(t[1])
       IN  /\ buffer' = t[2]
           /\ delivered' = delivered \o t[1]
           /\ last_call' = [n |-> 9, data |-> t[1], eof |-> FALSE]
           /\ IF t[1] = <<>>
                THEN \* if not header: break
                     /\ rxPc' = "exit" /\ rx_exit' = "eof_header"
                     /\ UNCHANGED <<rstats, consecutive_errors, data_type, data_size>>
                ELSE IF h.sync # SYNC
                THEN \* stats['sync_errors'] += 1; continue
                     /\ rstats' = [rstats EXCEPT !.sync_errors = @ + 1]
                     /\ rxPc' = "top"
                     /\ UNCHANGED <<rx_exit, consecutive_errors, data_type, data_size>>
                ELSE IF h.data_size > MaxPacket
                THEN \* consecutive_errors = 0; stats['packets_dropped'] += 1; continue
                     /\ consecutive_errors' = 0
                     /\ rstats' = [rstats EXCEPT !.packets_dropped = @ + 1]
                     /\ data_type' = h.data_type
                     /\ data_size' = h.data_size
                     /\ rxPc' = "top"
                     /\ UNCHANGED rx_exit
                ELSE /\ consecutive_errors' = 0
                     /\ data_type' = h.data_type
                     /\ data_size' = h.data_size
                     /\ rxPc' = "payload"
                     /\ UNCHANGED <<rx_exit, rstats>>
    /\ UNCHANGED <<connVars, rx_stop, laneVars, displayPc, histVars, eof_seen,
                   dispatched>>
    /\ UNCHANGED <<senderVars, pbVars, sessVars, cfgVars>>

\* if data_type == b'V': decode; put the frame unless frame_queue is full
DispatchVideo(data, decoded) ==
    /\ IF decoded /\ Len(frame_queue) < FrameMaxsize
         THEN frame_queue' = Append(frame_queue, data)
         ELSE UNCHANGED frame_queue
    /\ rstats' = [rstats EXCEPT
                    !.video_received = @ + 1,
                    !.packets_dropped =
                        IF decoded /\ Len(frame_queue) >= FrameMaxsize THEN @ + 1 ELSE @]
    /\ UNCHANGED <<rx_audio_queue, audio_info_queue>>

\* elif data_type == b'A': put, dropping the oldest chunk when the queue is full
\* (one step: no consumer of audio_queue is part of this specification)
DispatchAudio(data) ==
    /\ IF Len(rx_audio_queue) < RxAudioMaxsize
         THEN /\ rx_audio_queue' = Append(rx_audio_queue, data)
              /\ rstats' = [rstats EXCEPT !.audio_received = @ + 1]
         ELSE /\ rx_audio_queue' = Append(Tail(rx_audio_queue), data)
              /\ rstats' = [rstats EXCEPT !.audio_received = @ + 1,
                                          !.packets_dropped = @ + 1]
    /\ UNCHANGED <<frame_queue, audio_info_queue>>

\* (mutant) a new format also flushes the chunks queued for playback
DispatchInfo_FlushAudio(data) ==
    /\ IF Len(data) = 12
         THEN audio_info_queue' =
                 << [rate |-> UnpackU32(SubSeq(data, 1, 4)),
                     channels |-> UnpackU32(SubSeq(data, 5, 8)),
                     bits |-> UnpackU32(SubSeq(data, 9, 12))] >>
         ELSE UNCHANGED audio_info_queue
    /\ rx_audio_queue' = <<>>
    /\ UNCHANGED <<frame_queue, rstats>>

\* elif data_type == b'I': rate, channels, bits = struct.unpack('<III', data);
\* empty audio_info_queue, put the new format; struct.error is swallowed
DispatchInfo(data) ==
    /\ IF Len(data) = 12
         THEN audio_info_queue' =
                 << [rate |-> UnpackU32(SubSeq(data, 1, 4)),
                     channels |-> UnpackU32(SubSeq(data, 5, 8)),
                     bits |-> UnpackU32(SubSeq(data, 9, 12))] >>
         ELSE UNCHANGED audio_info_queue
    /\ UNCHANGED <<frame_queue, rx_audio_queue, rstats>>

\* data = receiver.receive_exact(data_size) returns; `if not data: break`;
\* then the message is handled by type.  decoded: cv2.imdecode gave a frame.
R_Payload(decoded) ==
    /\ rxPc = "payload"
    /\ Len(buffer) >= data_size
    /\ LET t == TakeExact(buffer, data_size)
           data == t[1]
       IN  /\ buffer' = t[2]
           /\ delivered' = delivered \o data
           /\ last_call' = [n |-> data_size, data |-> data, eof |-> FALSE]
           /\ IF data = <<>>
                THEN \* b'' is falsy: "Connection lost while receiving data"; break
                     /\ rxPc' = "exit" /\ rx_exit' = "eof_payload"
                     /\ UNCHANGED <<rstats, laneVars, dispatched>>
                ELSE /\ rxPc' = "top"
                     /\ UNCHANGED rx_exit
                     /\ IF data_type = KindV
                          THEN /\ DispatchVideo(data, decoded)
                               /\ dispatched' = Append(dispatched, <<data_type, data>>)
                        ELSE IF data_type = KindA
                          THEN /\ DispatchAudio(data)
                               /\ dispatched' = Append(dispatched, <<data_type, data>>)
                        ELSE IF data_type = KindI
                          THEN /\ DispatchInfo(data)
                               /\ dispatched' = Append(dispatched, <<data_type, data>>)
                        ELSE UNCHANGED <<rstats, laneVars, dispatched>>
    /\ UNCHANGED <<connVars, data_type, data_size, consecutive_errors, rx_stop,
                   displayPc, histVars, eof_seen>>
    /\ UNCHANGED <<senderVars, pbVars, sessVars, cfgVars>>

\* after the loop: stop_event.set(); join the threads; client_sock.close()
R_Cleanup ==
    /\ rxPc = "exit"
    /\ rx_stop' = TRUE
    /\ rxPc' = "closed"
    /\ UNCHANGED <<connVars, buffer, rx_exit, data_type, data_size,
                   consecutive_errors, rstats, laneVars, displayPc, histVars,
                   delivered, last_call, eof_seen, dispatched>>
    /\ UNCHANGED <<senderVars, pbVars, sessVars, cfgVars>>

(***************************************************************************)
(* frame_display_thread                                                    *)
(***************************************************************************)
\* while not stop_event.is_set():
Disp_Top ==
    /\ displayPc = "top"
    /\ displayPc' = IF rx_stop THEN "exit" ELSE "get"
    /\ UNCHANGED <<connVars, buffer, rxPc, rx_exit, data_type, data_size,
                   consecutive_errors, rstats, rx_stop, laneVars, histVars,
                   delivered, last_call, eof_seen, dispatched>>
    /\ UNCHANGED <<senderVars, pbVars, sessVars, cfgVars>>

\* frame = frame_queue.get(timeout=0.1); imshow; key = cv2.waitKey(1);
\* Q or ESC: stop_event.set(); break
Disp_Show(quit) ==
    /\ displayPc = "get"
    /\ frame_queue # <<>>
    /\ frame_queue' = Tail(frame_queue)
    /\ IF quit THEN rx_stop' = TRUE /\ displayPc' = "exit"
               ELSE UNCHANGED rx_stop /\ displayPc' = "top"
    /\ UNCHANGED <<connVars, buffer, rxPc, rx_exit, data_type, data_size,
                   consecutive_errors, rstats, rx_audio_queue, audio_info_queue,
                   histVars, delivered, last_call, eof_seen, dispatched>>
    /\ UNCHANGED <<senderVars, pbVars, sessVars, cfgVars>>

\* frame_queue.get(timeout=0.1) raises queue.Empty: continue
Disp_Timeout ==
    /\ displayPc = "get"
    /\ frame_queue = <<>>
    /\ displayPc' = "top"
    /\ UNCHANGED <<connVars, buffer, rxPc, rx_exit, data_type, data_size,
                   consecutive_errors, rstats, rx_stop, laneVars, histVars,
                   delivered, last_call, eof_seen, dispatched>>
    /\ UNCHANGED <<senderVars, pbVars, sessVars, cfgVars>>

(***************************************************************************)
(* audio_playback_thread                                                   *)
(***************************************************************************)
DefaultRate == 44100
DefaultChannels == 2
BufferMaxlen == 20                  \* collections.deque(maxlen=20)
BufferFill == 10                    \* refill while len(audio_buffer) < 10

\* the formats a sender announces, and every (rate, channels) the
\* reconfiguration can ask the device for
Formats == { <<22050, 1>>, <<48000, 2>> }
Configs == {22050, 44100, 48000} \X {1, 2}

pbRxVars == <<wire, peer_closed, sock_reset, buffer, rxPc, rx_exit, data_type,
              data_size, consecutive_errors, rstats, rx_stop, frame_queue,
              displayPc, sent_bytes, sent_msgs, delivered, last_call, eof_seen,
              dispatched>>

\* (mutant) the stereo fallbacks are tried before the other rates
Candidates_StereoFirst(rate, channels) ==
    << <<rate, channels>>, <<rate, 2>>, <<44100, channels>>,
       <<48000, channels>>, <<44100, 2>>, <<48000, 2>> >>

\* configs_to_try
Candidates(rate, channels) ==
    << <<rate, channels>>, <<44100, channels>>, <<48000, channels>>,
       <<rate, 2>>, <<44100, 2>>, <<48000, 2>> >>

\* the index of the first candidate p.open accepts, 0 when it accepts none
FirstAccepted(cands) ==
    LET ok == {i \in 1..Len(cands) : cands[i] \in accepts}
    IN  IF ok = {} THEN 0 ELSE CHOOSE i \in ok : \A j \in ok : i <= j

\* (mutant) the newest chunk goes to the front of the hold buffer
DequeAppend_Front(buf, x) == <<x>> \o buf

\* audio_buffer.append(x) on a deque(maxlen=20): the oldest is dropped when full
DequeAppend(buf, x) ==
    IF Len(buf) >= BufferMaxlen THEN Append(Tail(buf), x) ELSE Append(buf, x)

\* p = pyaudio.PyAudio(); defaults; the device's capabilities are fixed here
PB_Start(caps) ==
    /\ pbPc = "start"
    /\ accepts' = caps
    /\ RATE' = DefaultRate
    /\ CHANNELS' = DefaultChannels
    /\ pbPc' = "top"
    /\ UNCHANGED <<stream, stream_configured, audio_buffer, pb_audio_info, played,
                   tried, neg_req, reopens, rx_audio_info>>
    /\ UNCHANGED <<sessVars, cfgVars, senderVars, pbRxVars, rx_audio_queue, audio_info_queue>>

\* while not stop_event.is_set(): ...; after the loop the stream is closed
PB_Top ==
    /\ pbPc = "top"
    /\ IF rx_stop
         THEN /\ pbPc' = "exit"
              /\ stream' = IF stream.state = "open"
                             THEN [stream EXCEPT !.state = "closed"] ELSE stream
         ELSE /\ pbPc' = "info"
              /\ UNCHANGED stream
    /\ UNCHANGED <<accepts, RATE, CHANNELS, stream_configured, audio_buffer,
                   pb_audio_info, played, tried, neg_req, reopens, rx_audio_info>>
    /\ UNCHANGED <<sessVars, cfgVars, senderVars, pbRxVars, rx_audio_queue, audio_info_queue>>

\* audio_info_queue.get_nowait() raises queue.Empty: pass
PB_InfoEmpty ==
    /\ pbPc = "info"
    /\ audio_info_queue = <<>>
    /\ pbPc' = "init"
    /\ UNCHANGED <<accepts, RATE, CHANNELS, stream, stream_configured, audio_buffer,
                   pb_audio_info, played, tried, neg_req, reopens, rx_audio_info>>
    /\ UNCHANGED <<sessVars, cfgVars, senderVars, pbRxVars, rx_audio_queue, audio_info_queue>>

\* (mutant) every announcement reconfigures the stream
PB_Info_AlwaysReopen(reclose_raises) ==
    /\ pbPc = "info"
    /\ audio_info_queue # <<>>
    /\ LET info == Head(audio_info_queue)
           new_rate == info.rate
           new_channels == info.channels
           cands == Candidates(new_rate, new_channels)
           k == FirstAccepted(cands)
       IN  /\ audio_info_queue' = Tail(audio_info_queue)
           /\ pb_audio_info' = info
           /\ IF FALSE
                THEN /\ pbPc' = "init"
                     /\ UNCHANGED <<RATE, CHANNELS, stream, stream_configured,
                                    tried, neg_req, reopens>>
                ELSE IF stream.state = "closed" /\ reclose_raises
                THEN /\ pbPc' = "top"
                     /\ UNCHANGED <<RATE, CHANNELS, stream, stream_configured,
                                    tried, neg_req, reopens>>
                ELSE /\ neg_req' = <<new_rate, new_channels>>
                     /\ reopens' = reopens + 1
                     /\ IF k > 0
                          THEN /\ tried' = SubSeq(cands, 1, k)
                               /\ stream' = [state |-> "open", rate |-> cands[k][1],
                                             channels |-> cands[k][2]]
                               /\ RATE' = cands[k][1]
                               /\ CHANNELS' = cands[k][2]
                               /\ stream_configured' = TRUE
                               /\ pbPc' = "init"
                          ELSE /\ tried' = cands
                               /\ stream' = IF stream.state = "none" THEN stream
                                            ELSE [stream EXCEPT !.state = "closed"]
                               /\ RATE' = new_rate
                               /\ CHANNELS' = new_channels
                               /\ UNCHANGED stream_configured
                               \* if not stream_configured: p.terminate(); return
                               /\ pbPc' = IF stream_configured THEN "init" ELSE "exit"
    /\ UNCHANGED <<accepts, audio_buffer, played, rx_audio_info>>
    /\ UNCHANGED <<sessVars, cfgVars, senderVars, pbRxVars, rx_audio_queue>>

\* audio_info = audio_info_queue.get_nowait() returns an announcement; the
\* stream is reconfigured when it differs from RATE/CHANNELS or none is open.
\* reclose_raises: stop_stream()/close() on a handle that is already closed
\* raises (the outer handler catches it) or returns, as the library decides.
PB_Info(reclose_raises) ==
    /\ pbPc = "info"
    /\ audio_info_queue # <<>>
    /\ LET info == Head(audio_info_queue)
           new_rate == info.rate
           new_channels == info.channels
           cands == Candidates(new_rate, new_channels)
           k == FirstAccepted(cands)
       IN  /\ audio_info_queue' = Tail(audio_info_queue)
           /\ pb_audio_info' = info
           /\ IF ~(new_rate # RATE \/ new_channels # CHANNELS \/ ~stream_configured)
                THEN /\ pbPc' = "init"
                     /\ UNCHANGED <<RATE, CHANNELS, stream, stream_configured,
                                    tried, neg_req, reopens>>
                ELSE IF stream.state = "closed" /\ reclose_raises
                THEN /\ pbPc' = "top"
                     /\ UNCHANGED <<RATE, CHANNELS, stream, stream_configured,
                                    tried, neg_req, reopens>>
                ELSE /\ neg_req' = <<new_rate, new_channels>>
                     /\ reopens' = reopens + 1
                     /\ IF k > 0
                          THEN /\ tried' = SubSeq(cands, 1, k)
                               /\ stream' = [state |-> "open", rate |-> cands[k][1],
                                             channels |-> cands[k][2]]
                               /\ RATE' = cands[k][1]
                               /\ CHANNELS' = cands[k][2]
                               /\ stream_configured' = TRUE
                               /\ pbPc' = "init"
                          ELSE /\ tried' = cands
                               /\ stream' = IF stream.state = "none" THEN stream
                                            ELSE [stream EXCEPT !.state = "closed"]
                               /\ RATE' = new_rate
                               /\ CHANNELS' = new_channels
                               /\ UNCHANGED stream_configured
                               \* if not stream_configured: p.terminate(); return
                               /\ pbPc' = IF stream_configured THEN "init" ELSE "exit"
    /\ UNCHANGED <<accepts, audio_buffer, played, rx_audio_info>>
    /\ UNCHANGED <<sessVars, cfgVars, senderVars, pbRxVars, rx_audio_queue>>

\* if not stream_configured: open with RATE/CHANNELS; on failure sleep, continue
PB_Init ==
    /\ pbPc = "init"
    /\ IF stream_configured
         THEN /\ pbPc' = "fill"
              /\ UNCHANGED <<stream, stream_configured>>
         ELSE IF <<RATE, CHANNELS>> \in accepts
         THEN /\ stream' = [state |-> "open", rate |-> RATE, channels |-> CHANNELS]
              /\ stream_configured' = TRUE
              /\ pbPc' = "fill"
         ELSE /\ pbPc' = "top"
              /\ UNCHANGED <<stream, stream_configured>>
    /\ UNCHANGED <<accepts, RATE, CHANNELS, audio_buffer, pb_audio_info, played,
                   tried, neg_req, reopens, rx_audio_info>>
    /\ UNCHANGED <<sessVars, cfgVars, senderVars, pbRxVars, rx_audio_queue, audio_info_queue>>

\* while not audio_queue.empty() and len(audio_buffer) < 10:
\*     audio_buffer.append(audio_queue.get_nowait())        (one round per step)
PB_Fill ==
    /\ pbPc = "fill"
    /\ IF rx_audio_queue # <<>> /\ Len(audio_buffer) < BufferFill
         THEN /\ audio_buffer' = DequeAppend(audio_buffer, Head(rx_audio_queue))
              /\ rx_audio_queue' = Tail(rx_audio_queue)
              /\ UNCHANGED pbPc
         ELSE /\ pbPc' = "play"
              /\ UNCHANGED <<audio_buffer, rx_audio_queue>>
    /\ UNCHANGED <<accepts, RATE, CHANNELS, stream, stream_configured,
                   pb_audio_info, played, tried, neg_req, reopens, rx_audio_info>>
    /\ UNCHANGED <<sessVars, cfgVars, senderVars, pbRxVars, audio_info_queue>>

\* if audio_buffer and stream: stream.write(audio_buffer.popleft()); a write
\* to a closed handle raises and the chunk is gone.  else: sleep(0.005)
PB_Play ==
    /\ pbPc = "play"
    /\ IF audio_buffer # <<>> /\ stream.state # "none"
         THEN /\ audio_buffer' = Tail(audio_buffer)
              /\ played' = Append(played,
                              [chunk |-> Head(audio_buffer),
                               ok |-> stream.state = "open",
                               rate |-> stream.rate,
                               channels |-> stream.channels,
                               seen |-> pb_audio_info.seq])
         ELSE UNCHANGED <<audio_buffer, played>>
    /\ pbPc' = "top"
    /\ UNCHANGED <<accepts, RATE, CHANNELS, stream, stream_configured,
                   pb_audio_info, tried, neg_req, reopens, rx_audio_info>>
    /\ UNCHANGED <<sessVars, cfgVars, senderVars, pbRxVars, rx_audio_queue, audio_info_queue>>

(***************************************************************************)
(* The receive loop seen from the playback thread: one step reads a whole  *)
(* well-formed frame and dispatches it; the dispatch of an audio-format    *)
(* announcement is split at its queue operations.                          *)
(***************************************************************************)
pbRxFrame == <<wire, peer_closed, sock_reset, buffer, rx_exit, data_type,
               data_size, consecutive_errors, rx_stop, displayPc, sent_bytes,
               sent_msgs, delivered, last_call, eof_seen, dispatched>>
pbLocal == <<accepts, pbPc, RATE, CHANNELS, stream, stream_configured, audio_buffer,
             pb_audio_info, played, tried, neg_req, reopens>>

\* an audio chunk arrives: it follows the announcements unpacked so far
RX_Audio(max) ==
    /\ rxPc = "top" /\ ~rx_stop
    /\ rstats.audio_received < max
    /\ DispatchAudio([id |-> rstats.audio_received + 1,
                      epoch |-> rx_audio_info.seq,
                      fmt |-> <<rx_audio_info.rate, rx_audio_info.channels>>])
    /\ UNCHANGED <<rxPc, rx_audio_info>>
    /\ UNCHANGED <<sessVars, cfgVars, senderVars, pbRxFrame, pbLocal>>

\* a video frame arrives
RX_Video(max) ==
    /\ rxPc = "top" /\ ~rx_stop
    /\ rstats.video_received < max
    /\ DispatchVideo(<<7, 8>>, TRUE)
    /\ UNCHANGED <<rxPc, rx_audio_info>>
    /\ UNCHANGED <<sessVars, cfgVars, senderVars, pbRxFrame, pbLocal>>

\* an announcement arrives: audio_info = {...}; `while not audio_info_queue.empty()`
RX_Info(fmt, max) ==
    /\ rxPc = "top" /\ ~rx_stop
    /\ rx_audio_info.seq < max
    /\ rx_audio_info' = [rate |-> fmt[1], channels |-> fmt[2], bits |-> 16,
                         seq |-> rx_audio_info.seq + 1]
    /\ rxPc' = IF audio_info_queue = <<>> THEN "info_put" ELSE "info_get"
    /\ UNCHANGED <<rstats, laneVars>>
    /\ UNCHANGED <<sessVars, cfgVars, senderVars, pbRxFrame, pbLocal>>

\* audio_info_queue.get_nowait(); queue.Empty is swallowed by `except: pass`,
\* which also skips the put
RX_InfoGet ==
    /\ rxPc = "info_get"
    /\ IF audio_info_queue # <<>>
         THEN /\ audio_info_queue' = Tail(audio_info_queue)
              /\ rxPc' = "info_put"
         ELSE /\ rxPc' = "top"
              /\ UNCHANGED audio_info_queue
    /\ UNCHANGED <<rstats, frame_queue, rx_audio_queue, rx_audio_info>>
    /\ UNCHANGED <<sessVars, cfgVars, senderVars, pbRxFrame, pbLocal>>

\* audio_info_queue.put_nowait(audio_info)
RX_InfoPut ==
    /\ rxPc = "info_put"
    /\ audio_info_queue' = IF Len(audio_info_queue) < 1
                             THEN Append(audio_info_queue, rx_audio_info)
                             ELSE audio_info_queue
    /\ rxPc' = "top"
    /\ UNCHANGED <<rstats, frame_queue, rx_audio_queue, rx_audio_info>>
    /\ UNCHANGED <<sessVars, cfgVars, senderVars, pbRxFrame, pbLocal>>

(***************************************************************************)
(* stream_to_receiver: capture device, socket, connect, finally            *)
(***************************************************************************)
recvSide == <<client_sock, sessions, stale>>

\* a call of stream_to_receiver begins
S_Call(max) ==
    /\ setupPc = "returned"
    /\ snd_sessions < max
    /\ snd_sessions' = snd_sessions + 1
    /\ setupPc' = "start"
    /\ connect_res' = "none"
    /\ snd_ret' = "none"
    /\ UNCHANGED <<camera, snd_sock, recvSide>>
    /\ UNCHANGED <<senderVars, recvVars, pbVars>>
    /\ UNCHANGED cfgVars

\* camera = dxcam.create(...); if not camera: return False
S_CreateCamera(ok) ==
    /\ setupPc = "start"
    /\ IF ok
         THEN /\ camera' = "created"
              /\ setupPc' = "created"
              /\ UNCHANGED snd_ret
         ELSE /\ setupPc' = "returned"
              /\ snd_ret' = "False"
              /\ UNCHANGED camera
    /\ UNCHANGED <<snd_sock, connect_res, snd_sessions, recvSide>>
    /\ UNCHANGED <<senderVars, recvVars, pbVars>>
    /\ UNCHANGED cfgVars

\* camera.start(target_fps=60, video_mode=True)
S_StartCapture ==
    /\ setupPc = "created"
    /\ camera' = "started"
    /\ setupPc' = "capturing"
    /\ UNCHANGED <<snd_sock, connect_res, snd_ret, snd_sessions, recvSide>>
    /\ UNCHANGED <<senderVars, recvVars, pbVars>>
    /\ UNCHANGED cfgVars

\* sock = socket.socket(...); sock.setsockopt(...)
S_Socket ==
    /\ setupPc = "capturing"
    /\ snd_sock' = "open"
    /\ setupPc' = "socket"
    /\ UNCHANGED <<camera, connect_res, snd_ret, snd_sessions, recvSide>>
    /\ UNCHANGED <<senderVars, recvVars, pbVars>>
    /\ UNCHANGED cfgVars

\* (mutant) the new DualNetworkSender goes on with the counters of the last one
S_Connect_KeepStats(outcome) ==
    /\ setupPc = "socket"
    /\ connect_res' = outcome
    /\ IF outcome = "ok"
         THEN /\ setupPc' = "connected"
              /\ video_queue' = <<>> /\ audio_queue' = <<>>
              /\ UNCHANGED stats
              /\ sender_stop' = FALSE /\ drainPc' = "poll"
              /\ inflight' = NoPacket
              /\ video_written' = <<>> /\ audio_written' = <<>>
              /\ audioPc' = "start" /\ audio_calls' = 0 /\ audioRes' = "none"
              /\ mainPc' = "run" /\ stop_event' = FALSE
              /\ video_calls' = 0 /\ videoRes' = "none" /\ frame_count' = 0
              /\ quality' = InitialQuality /\ evals' = 0 /\ window_base' = 0
         ELSE /\ setupPc' = "finally"
              /\ UNCHANGED senderVars
    /\ UNCHANGED <<camera, snd_sock, snd_ret, snd_sessions, recvSide>>
    /\ UNCHANGED <<recvVars, pbVars>>
    /\ UNCHANGED cfgVars

\* try: sock.settimeout(5.0); sock.connect(...)
\*   "ok": sender = DualNetworkSender(sock); stop_event = threading.Event();
\*         audio_thread = None (or the started capture thread)
\*   "refused": ConnectionRefusedError, "timeout": socket.timeout; in both the
\*         names sender, stop_event and audio_thread are never bound
S_Connect(outcome) ==
    /\ setupPc = "socket"
    /\ connect_res' = outcome
    /\ IF outcome = "ok"
         THEN /\ setupPc' = "connected"
              /\ video_queue' = <<>> /\ audio_queue' = <<>>
              /\ stats' = [video_sent |-> 0, audio_sent |-> 0,
                           video_dropped |-> 0, audio_dropped |-> 0]
              /\ sender_stop' = FALSE /\ drainPc' = "poll"
              /\ inflight' = NoPacket
              /\ video_written' = <<>> /\ audio_written' = <<>>
              /\ audioPc' = "start" /\ audio_calls' = 0 /\ audioRes' = "none"
              /\ mainPc' = "run" /\ stop_event' = FALSE
              /\ video_calls' = 0 /\ videoRes' = "none" /\ frame_count' = 0
              /\ quality' = InitialQuality /\ evals' = 0 /\ window_base' = 0
         ELSE /\ setupPc' = "finally"
              /\ UNCHANGED senderVars
    /\ UNCHANGED <<camera, snd_sock, snd_ret, snd_sessions, recvSide>>
    /\ UNCHANGED <<recvVars, pbVars>>
    /\ UNCHANGED cfgVars

\* finally: stop_event.set(); sender.stop(); if audio_thread: ...join(timeout=1);
\*          camera.stop(); sock.close()     and then return True, or the
\*          return False of the ConnectionRefusedError branch.
\* After a failed connect stop_event is unbound: stop_event.set() raises
\* UnboundLocalError, which replaces the pending return and leaves the function.
S_Finally ==
    /\ \/ setupPc = "finally"
       \/ setupPc = "connected" /\ mainPc = "stopped"
    /\ IF connect_res = "ok"
         THEN /\ camera' = "stopped"
              /\ snd_sock' = "closed"
              /\ snd_ret' = "True"
         ELSE /\ snd_ret' = "UnboundLocalError"
              /\ UNCHANGED <<camera, snd_sock>>
    /\ setupPc' = "returned"
    /\ UNCHANGED <<connect_res, snd_sessions, recvSide>>
    /\ UNCHANGED <<senderVars, recvVars, pbVars>>
    /\ UNCHANGED cfgVars

(***************************************************************************)
(* The end of a receiver session and the next accept                       *)
(***************************************************************************)
rxSessionVars == <<wire, peer_closed, sock_reset, buffer, rx_exit, data_type,
                   data_size, consecutive_errors, rstats, laneVars, displayPc,
                   histVars, delivered, last_call, eof_seen, dispatched>>
senderSide == <<setupPc, camera, snd_sock, connect_res, snd_ret, snd_sessions>>

\* the receive loop has ended: stop_event.set()
R_StopSet ==
    /\ rxPc = "exit"
    /\ rx_stop' = TRUE
    /\ rxPc' = "stopped"
    /\ UNCHANGED <<rxSessionVars, client_sock, sessions, stale, senderSide>>
    /\ UNCHANGED <<senderVars, pbVars>>
    /\ UNCHANGED cfgVars

\* (mutant) the socket is closed before the threads are joined
R_JoinDisplay_CloseFirst ==
    /\ rxPc = "stopped"
    /\ rxPc' = "joined_display"
    /\ client_sock' = "closed"
    /\ UNCHANGED <<rxSessionVars, rx_stop, sessions, stale, senderSide>>
    /\ UNCHANGED <<senderVars, pbVars>>
    /\ UNCHANGED cfgVars

\* display_thread.join(timeout=2) returns: the thread has ended or 2 s have passed
R_JoinDisplay ==
    /\ rxPc = "stopped"
    /\ rxPc' = "joined_display"
    /\ UNCHANGED <<rxSessionVars, rx_stop, client_sock, sessions, stale, senderSide>>
    /\ UNCHANGED <<senderVars, pbVars>>
    /\ UNCHANGED cfgVars

\* audio_thread.join(timeout=2) returns: the thread has ended or 2 s have passed
R_JoinAudio ==
    /\ rxPc = "joined_display"
    /\ rxPc' = "joined_audio"
    /\ UNCHANGED <<rxSessionVars, rx_stop, client_sock, sessions, stale, senderSide>>
    /\ UNCHANGED <<senderVars, pbVars>>
    /\ UNCHANGED cfgVars

\* client_sock.close()
R_Close ==
    /\ rxPc = "joined_audio"
    /\ client_sock' = "closed"
    /\ rxPc' = "closed"
    /\ UNCHANGED <<rxSessionVars, rx_stop, sessions, stale, senderSide>>
    /\ UNCHANGED <<senderVars, pbVars>>
    /\ UNCHANGED cfgVars

\* the threads of the session that have not left their loops
Running ==
    (IF displayPc # "exit" THEN {"display"} ELSE {}) \cup
    (IF pbPc # "exit" THEN {"playback"} ELSE {})

\* client_sock, addr = server_sock.accept() returns for the next sender: a new
\* stop_event, new queues, new threads, a new NetworkReceiver, new stats
R_Accept(max) ==
    /\ rxPc = "closed"
    /\ sessions < max
    /\ sessions' = sessions + 1
    /\ stale' = stale \cup Running
    /\ client_sock' = "open"
    /\ wire' = <<>> /\ peer_closed' = FALSE /\ sock_reset' = FALSE
    /\ buffer' = <<>>
    /\ rxPc' = "top" /\ rx_exit' = "none"
    /\ data_type' = 0 /\ data_size' = 0
    /\ consecutive_errors' = 0
    /\ rstats' = [video_received |-> 0, audio_received |-> 0,
                  sync_errors |-> 0, packets_dropped |-> 0]
    /\ rx_stop' = FALSE
    /\ frame_queue' = <<>> /\ rx_audio_queue' = <<>> /\ audio_info_queue' = <<>>
    /\ displayPc' = "top"
    /\ sent_bytes' = <<>> /\ sent_msgs' = <<>> /\ delivered' = <<>>
    /\ last_call' = [n |-> 0, data |-> <<>>, eof |-> FALSE]
    /\ eof_seen' = FALSE
    /\ dispatched' = <<>>
    /\ accepts' = {} /\ pbPc' = "start" /\ RATE' = 0 /\ CHANNELS' = 0
    /\ stream' = NoStream /\ stream_configured' = FALSE /\ audio_buffer' = <<>>
    /\ pb_audio_info' = NoInfo /\ played' = <<>> /\ tried' = <<>> /\ neg_req' = <<>> /\ reopens' = 0
    /\ rx_audio_info' = NoInfo
    /\ UNCHANGED senderSide
    /\ UNCHANGED senderVars
    /\ UNCHANGED cfgVars

\* a thread of an earlier session sees its stop_event set and ends
Stale_Exit(t) ==
    /\ t \in stale
    /\ stale' = stale \ {t}
    /\ UNCHANGED <<client_sock, sessions, senderSide>>
    /\ UNCHANGED <<senderVars, recvVars, pbVars>>
    /\ UNCHANGED cfgVars

(***************************************************************************)
(* A receiver session, byte by byte                                        *)
(***************************************************************************)
RecvNext ==
    \/ \E f \in PeerFrames : P_Send(f)
    \/ P_Close \/ P_Reset
    \/ R_Top \/ R_Recv \/ R_RecvEof \/ R_RecvRaise \/ R_Header
    \/ \E decoded \in BOOLEAN : R_Payload(decoded)
    \/ R_Cleanup
    \/ Disp_Top \/ Disp_Timeout
    \/ \E quit \in BOOLEAN : Disp_Show(quit)

SpecRecv == Init /\ [][RecvNext]_vars

(***************************************************************************)
(* A receiver session whose peer sends a run of headers with a wrong magic *)
(* and then at most one valid audio frame, on a connection that is not     *)
(* reset.                                                                  *)
(***************************************************************************)
MaxRunFrames == 10

BadMagicFrame == [form |-> "bad_magic", kind |-> KindV, payload |-> <<>>]
ValidAudioFrame == [form |-> "ok", kind |-> KindA, payload |-> <<7, 8>>]
RunFrames == {BadMagicFrame, ValidAudioFrame}

RecvRunNext ==
    \/ \E f \in RunFrames :
          /\ \A i \in 1..Len(sent_msgs) : sent_msgs[i] = BadMagicFrame
          /\ P_SendUpTo(f, MaxRunFrames)
    \/ P_Close
    \/ R_Top \/ R_Recv \/ R_RecvEof \/ R_Header
    \/ \E decoded \in BOOLEAN : R_Payload(decoded)
    \/ R_Cleanup
    \/ Disp_Top \/ Disp_Timeout

SpecRecvRun == Init /\ [][RecvRunNext]_vars

(***************************************************************************)
(* The drain thread scheduled again and again, next to a main loop that    *)
(* queues frames and an audio thread that stops after a few packets.       *)
(***************************************************************************)
MaxFairVideo == 6
MaxFairAudio == 4

DrainThread ==
    \/ D_Exit \/ D_TakeAudio \/ D_AudioEmpty \/ D_TakeVideo \/ D_VideoTimeout
    \/ D_WriteAudio \/ D_WriteVideo \/ D_WriteFail

StarveNext ==
    \/ D_Exit \/ D_TakeAudio \/ D_AudioEmpty \/ D_TakeVideo \/ D_VideoTimeout
    \/ D_WriteAudio \/ D_WriteVideo \/ D_WriteFail
    \/ M_SendVideo(MaxFairVideo) \/ M_Stop
    \/ (audio_calls < MaxFairAudio /\ A_Put) \/ A_Exit

SpecStarve == Init /\ [][StarveNext]_vars /\ WF_vars(DrainThread)

(***************************************************************************)
(* Calls of stream_to_receiver without an audio device: the capture device *)
(* and the socket from creation to the return of the function.             *)
(***************************************************************************)
MaxCalls == 2
MaxConnVideo == 2

ConnectInit ==
    /\ SenderInit /\ RecvInit /\ PlaybackInit
    /\ client_sock = "open" /\ sessions = 1 /\ stale = {}
    /\ setupPc = "start" /\ camera = "none" /\ snd_sock = "none"
    /\ connect_res = "none" /\ snd_ret = "none" /\ snd_sessions = 1
    /\ SettingsInit

ConnectNext ==
    \/ S_Call(MaxCalls)
    \/ \E ok \in BOOLEAN : S_CreateCamera(ok)
    \/ S_StartCapture \/ S_Socket
    \/ \E outcome \in {"ok", "refused", "timeout"} : S_Connect(outcome)
    \/ S_Finally
    \/ D_Exit \/ D_AudioEmpty \/ D_TakeVideo \/ D_VideoTimeout
    \/ D_WriteVideo \/ D_WriteFail
    \/ M_SendVideo(MaxConnVideo) \/ M_Stop

SpecConnect == ConnectInit /\ [][ConnectNext]_vars

(***************************************************************************)
(* Sender and receiver over several connections: every connect of the      *)
(* sender is accepted by the receiver, the bytes of a written video packet *)
(* arrive at the receiver, the close of the sender's socket is the         *)
(* receiver's EOF.  The network is slow: sendall returns once the          *)
(* producers have made their calls or the session is being stopped.  The   *)
(* sender is started again when the receiver is back in accept.            *)
(***************************************************************************)
VideoFrame == [form |-> "ok", kind |-> KindV, payload |-> <<7, 8>>]

MaxSessVideo == 6
MaxSessFrames == 1

SendallReturns ==
    \/ stop_event
    \/ /\ audio_calls >= MaxAudioCalls /\ audioPc = "between"
       /\ video_calls >= MaxSessVideo

SessionsNext ==
    \/ (rxPc = "closed" /\ S_Call(MaxCalls))
    \/ \E ok \in BOOLEAN : S_CreateCamera(ok)
    \/ S_StartCapture \/ S_Socket
    \/ \E outcome \in {"ok", "refused"} : S_Connect(outcome)
    \/ S_Finally
    \/ D_Exit \/ D_TakeAudio \/ D_AudioEmpty \/ D_TakeVideo \/ D_VideoTimeout
    \/ (SendallReturns /\ D_WriteAudio)
    \/ (SendallReturns /\ D_WriteVideo)
    \/ (SendallReturns /\ D_WriteFail)
    \/ M_SendVideo(MaxSessVideo) \/ M_Stop
    \/ A_Put \/ A_EvictGet \/ A_EvictPut \/ A_Exit
    \/ (Len(sent_msgs) < Len(video_written) /\ P_SendUpTo(VideoFrame, MaxSessFrames))
    \/ (snd_sock = "closed" /\ P_Close)
    \/ R_Top \/ R_Recv \/ R_RecvEof \/ R_Header
    \/ \E decoded \in BOOLEAN : R_Payload(decoded)
    \/ R_StopSet \/ R_JoinDisplay \/ R_JoinAudio \/ R_Close
    \/ (snd_sessions > sessions /\ setupPc = "connected" /\ R_Accept(MaxCalls))

SpecSessions == Init /\ [][SessionsNext]_vars

(***************************************************************************)
(* Receiver sessions from accept to accept: video frames only, an output   *)
(* device that accepts every configuration.                                *)
(***************************************************************************)
MaxSessions == 2
MaxTdFrames == 1

\* what the receiver program does (the peer's steps are not among them)
TeardownProgram ==
    \/ R_Top \/ R_Recv \/ R_RecvEof \/ R_RecvRaise \/ R_Header
    \/ \E decoded \in BOOLEAN : R_Payload(decoded)
    \/ R_StopSet \/ R_JoinDisplay \/ R_JoinAudio \/ R_Close
    \/ Disp_Top \/ Disp_Timeout
    \/ \E quit \in BOOLEAN : Disp_Show(quit)
    \/ PB_Start(Configs) \/ PB_Top \/ PB_InfoEmpty \/ PB_Init \/ PB_Fill \/ PB_Play
    \/ \E t \in {"display", "playback"} : Stale_Exit(t)

TeardownNext ==
    \/ P_SendUpTo(VideoFrame, MaxTdFrames)
    \/ P_Close \/ P_Reset
    \/ R_Accept(MaxSessions)
    \/ TeardownProgram

SpecTeardown == Init /\ [][TeardownNext]_vars

\* the threads of the receiver program, each scheduled again and again
ReceiveLoop ==
    \/ R_Top \/ R_Recv \/ R_RecvEof \/ R_RecvRaise \/ R_Header
    \/ \E decoded \in BOOLEAN : R_Payload(decoded)
    \/ R_StopSet \/ R_JoinDisplay \/ R_JoinAudio \/ R_Close
DisplayThread ==
    \/ Disp_Top \/ Disp_Timeout
    \/ \E quit \in BOOLEAN : Disp_Show(quit)
PlaybackThread ==
    \/ PB_Start(Configs) \/ PB_Top \/ PB_InfoEmpty \/ PB_Init \/ PB_Fill \/ PB_Play

SpecTeardownFair ==
    /\ SpecTeardown
    /\ WF_vars(ReceiveLoop) /\ WF_vars(DisplayThread) /\ WF_vars(PlaybackThread)

(***************************************************************************)
(* The probe of test_connection: the first connection is closed by the     *)
(* sender without a byte, the stream connection waits behind it.           *)
(***************************************************************************)
ProbeNext ==
    \/ (sessions > 1 /\ P_SendUpTo(VideoFrame, MaxTdFrames))
    \/ P_Close
    \/ R_Accept(MaxSessions)
    \/ R_Top \/ R_Recv \/ R_RecvEof \/ R_Header
    \/ \E decoded \in BOOLEAN : R_Payload(decoded)
    \/ R_StopSet \/ R_JoinDisplay \/ R_JoinAudio \/ R_Close
    \/ Disp_Top \/ Disp_Timeout
    \/ \E quit \in BOOLEAN : Disp_Show(quit)
    \/ PB_Start(Configs) \/ PB_Top \/ PB_InfoEmpty \/ PB_Init \/ PB_Fill \/ PB_Play
    \/ \E t \in {"display", "playback"} : Stale_Exit(t)

SpecProbe ==
    /\ Init /\ [][ProbeNext]_vars
    /\ WF_vars(ReceiveLoop) /\ WF_vars(R_Accept(MaxSessions))
    /\ WF_vars(DisplayThread) /\ WF_vars(PlaybackThread)

(***************************************************************************)
(* The playback thread next to the receive loop, on a device that accepts  *)
(* any set of configurations.                                              *)
(***************************************************************************)
MaxChunks == 2
MaxInfos == 2
MaxPbFrames == 1

PlaybackNext ==
    \/ \E caps \in SUBSET Configs : PB_Start(caps)
    \/ PB_Top \/ PB_InfoEmpty
    \/ \E reclose_raises \in BOOLEAN : PB_Info(reclose_raises)
    \/ PB_Init \/ PB_Fill \/ PB_Play
    \/ RX_Audio(MaxChunks) \/ RX_Video(MaxPbFrames)
    \/ \E fmt \in Formats : RX_Info(fmt, MaxInfos)
    \/ RX_InfoGet \/ RX_InfoPut

SpecPlayback == Init /\ [][PlaybackNext]_vars

(***************************************************************************)
(* The negotiation of the output format: announcements and a chunk, no     *)
(* video.                                                                  *)
(***************************************************************************)
MaxNegInfos == 2
MaxNegChunks == 1

NegotiateNext ==
    \/ \E caps \in SUBSET Configs : PB_Start(caps)
    \/ PB_Top \/ PB_InfoEmpty
    \/ \E reclose_raises \in BOOLEAN : PB_Info(reclose_raises)
    \/ PB_Init \/ PB_Fill \/ PB_Play
    \/ RX_Audio(MaxNegChunks)
    \/ \E fmt \in Formats : RX_Info(fmt, MaxNegInfos)
    \/ RX_InfoGet \/ RX_InfoPut

SpecNegotiate == Init /\ [][NegotiateNext]_vars

(***************************************************************************)
(* A row of announcements on one connection: three formats one after the   *)
(* other, no chunks, a device that accepts any set of configurations.      *)
(***************************************************************************)
MaxReInfos == 3

ReopenNext ==
    \/ \E caps \in SUBSET Configs : PB_Start(caps)
    \/ PB_Top \/ PB_InfoEmpty
    \/ \E reclose_raises \in BOOLEAN : PB_Info(reclose_raises)
    \/ PB_Init \/ PB_Fill \/ PB_Play
    \/ \E fmt \in Formats : RX_Info(fmt, MaxReInfos)
    \/ RX_InfoGet \/ RX_InfoPut

SpecReopen == Init /\ [][ReopenNext]_vars

(***************************************************************************)
(* The hold buffer: a burst of chunks around one announcement of          *)
(* (22050, 1), on a device that accepts every configuration.  The slot is  *)
(* empty when the one announcement arrives, so the receive loop goes       *)
(* straight to its put.                                                    *)
(***************************************************************************)
MaxHoldChunks == 10
MaxHoldInfos == 1

HoldCaps == { Configs }
HoldFormats == { <<22050, 1>> }

HoldNext ==
    \/ \E caps \in HoldCaps : PB_Start(caps)
    \/ PB_Top \/ PB_InfoEmpty
    \/ \E reclose_raises \in BOOLEAN : PB_Info(reclose_raises)
    \/ PB_Init \/ PB_Fill \/ PB_Play
    \/ RX_Audio(MaxHoldChunks)
    \/ \E fmt \in HoldFormats : RX_Info(fmt, MaxHoldInfos)
    \/ RX_InfoPut

SpecHold == Init /\ [][HoldNext]_vars

(***************************************************************************)
(* A sender session with an audio device: the queueing discipline.  The    *)
(* quality evaluation reads stats only and is left to SpecQuality.         *)
(***************************************************************************)
SenderNext ==
    \/ D_Exit \/ D_TakeAudio \/ D_AudioEmpty \/ D_TakeVideo \/ D_VideoTimeout
    \/ D_WriteAudio \/ D_WriteVideo \/ D_WriteFail
    \/ M_SendVideo(MaxVideoCalls) \/ M_Stop
    \/ A_Put \/ A_EvictGet \/ A_EvictPut \/ A_Exit

SpecSender == Init /\ [][SenderNext]_vars

(***************************************************************************)
(* A sender session without an audio device (audio_device is None, no      *)
(* audio thread is started): video lane, drain thread, quality evaluation. *)
(***************************************************************************)
QualityNext ==
    \/ D_Exit \/ D_AudioEmpty \/ D_TakeVideo \/ D_VideoTimeout
    \/ D_WriteVideo \/ D_WriteFail
    \/ M_SendVideo(MaxVideoCallsQ) \/ M_Eval \/ M_Stop

SpecQuality == Init /\ [][QualityNext]_vars

(***************************************************************************)
(* Helpers for the statements below                                        *)
(***************************************************************************)
InSeq(x, q) == \E i \in 1..Len(q) : q[i] = x

(***************************************************************************)
(* Statements about the sender                                             *)
(***************************************************************************)

\* C1: in every reachable state of a sender session the video lane holds at
\* most 5 packets and the audio lane at most 30.
C1_LaneBounds ==
    /\ Len(video_queue) <= VideoMaxsize
    /\ Len(audio_queue) <= AudioMaxsize

\* C1 witness: both lanes are full and each producer has met a full lane.
C1_Witness ==
    /\ Len(video_queue) = VideoMaxsize
    /\ Len(audio_queue) = AudioMaxsize
    /\ stats.video_dropped >= 1
    /\ stats.audio_dropped >= 1

\* C2: when a send_audio(m) call has returned, m is in the audio lane or has
\* been taken by the drain loop (being written, written, or its write failed):
\* the new packet is never the one discarded.
C2_NewestAudioKept ==
    (audioPc = "between" /\ audio_calls > 0) =>
        \/ InSeq(audio_calls, audio_queue)
        \/ inflight = <<"audio", audio_calls>>
        \/ InSeq(audio_calls, audio_written)

\* C3 as stated: the drain loop never takes a video packet for writing in a
\* state where the audio lane is non-empty.
C3_NoVideoWhileAudioPending ==
    [][(drainPc = "video_wait" /\ drainPc' = "video_write") => audio_queue = <<>>]_vars

\* C3 amended: the drain loop takes a video packet only in an iteration whose
\* audio poll found the audio lane empty, and when the audio lane holds a
\* packet at the poll, the packet taken next is an audio packet (or the loop
\* ends on the stop event).
C3_VideoOnlyAfterEmptyAudioPoll ==
    [][ /\ (drainPc' = "video_write" /\ drainPc # "video_write") => drainPc = "video_wait"
        /\ (drainPc' = "video_wait" /\ drainPc # "video_wait") =>
               (drainPc = "poll" /\ audio_queue = <<>>)
        /\ (drainPc = "poll" /\ audio_queue # <<>> /\ drainPc' # "poll") =>
               \/ drainPc' = "exit"
               \/ (drainPc' = "audio_write" /\ inflight' = <<"audio", Head(audio_queue)>>)
      ]_vars

\* C3 witness: both lanes held a packet at the poll and the audio packet was
\* taken, after an earlier video packet had been written.
C3_Witness ==
    /\ drainPc = "audio_write"
    /\ video_queue # <<>>
    /\ video_written # <<>>

\* C4: send_video on a full video lane returns False, leaves both lanes and
\* every other counter unchanged and adds exactly 1 to video_dropped; on a
\* non-full lane it appends the frame at the tail, returns True and leaves
\* the counters unchanged.
C4_SendVideoEffect ==
    [][ video_calls' # video_calls =>
          IF Len(video_queue) >= VideoMaxsize
            THEN /\ videoRes' = "False"
                 /\ video_queue' = video_queue
                 /\ audio_queue' = audio_queue
                 /\ stats' = [stats EXCEPT !.video_dropped = @ + 1]
                 /\ frame_count' = frame_count
            ELSE /\ videoRes' = "True"
                 /\ video_queue' = Append(video_queue, video_calls')
                 /\ audio_queue' = audio_queue
                 /\ stats' = stats
                 /\ frame_count' = frame_count + 1
      ]_vars

\* C4 witness: a frame was dropped on a full lane after frames were accepted.
C4_Witness ==
    /\ videoRes = "False"
    /\ Len(video_queue) = VideoMaxsize
    /\ stats.video_dropped = 1
    /\ frame_count = VideoMaxsize

\* C5: once a socket write of the drain loop has failed, the drain loop makes
\* no further write, cancellation is signalled, and the producers enqueue
\* nothing more for this session.
C5_WriteFailureClosesSession ==
    [][ drainPc = "failed" =>
          /\ drainPc' = "failed"
          /\ video_written' = video_written
          /\ audio_written' = audio_written
          /\ stop_event
          /\ video_calls' = video_calls
          /\ audio_calls' = audio_calls
      ]_vars

\* C6: at each one-second evaluation the quality changes according to the
\* video frames dropped during that window only: more than 5 lowers it by 5
\* (not below 60), none raises it by 2 (not above 95), else it is unchanged.
C6_WindowedAdjust ==
    [][ evals' = evals + 1 =>
          LET w == stats.video_dropped - window_base
          IN  quality' = IF w > 5 THEN (IF quality - 5 < min_quality
                                          THEN min_quality ELSE quality - 5)
                         ELSE IF w = 0 THEN (IF quality + 2 > max_quality
                                               THEN max_quality ELSE quality + 2)
                         ELSE quality
      ]_vars

\* C7: after any number of evaluations the quality handed to the encoder is
\* within [60, 95].
C7_QualityInRange ==
    /\ quality >= min_quality
    /\ quality <= max_quality

(***************************************************************************)
(* Statements about the receiver                                           *)
(***************************************************************************)
IsPrefix(a, b) == Len(a) <= Len(b) /\ a = SubSeq(b, 1, Len(a))

AllWellFormed == \A i \in 1..Len(sent_msgs) : sent_msgs[i].form = "ok"

\* the (kind, payload) pairs of the frames the peer has sent
SentPairs == [i \in 1..Len(sent_msgs) |-> <<sent_msgs[i].kind, sent_msgs[i].payload>>]

\* C8: frames produced by the sender's framing (kind V, A or I, any payload
\* length from 0), fed to the receive loop over any chunking, are decoded to
\* the same kind and length and dispatched with identical payload bytes, and
\* the session stays Connected: the loop is left only on end of stream, on
\* the stop event or on a reset connection, and once the stream has been
\* consumed every frame sent was dispatched.
C8_RoundTrip ==
    AllWellFormed =>
        /\ IsPrefix(dispatched, SentPairs)
        /\ rx_exit \in {"eof_header", "eof_payload"} => eof_seen
        /\ (rxPc = "header" /\ buffer = <<>> /\ wire = <<>>) => dispatched = SentPairs

\* C9: every receive_exact(n) call returns exactly n bytes or EOF, never a
\* shorter result; the results in order, then the retained buffer, then the
\* bytes still on the wire are exactly the stream the peer sent (nothing is
\* lost, duplicated or reordered, and what was read beyond n is kept).
C9_ReceiveExact ==
    /\ delivered \o buffer \o wire = sent_bytes
    /\ ~last_call.eof => Len(last_call.data) = last_call.n
    /\ last_call.eof => (last_call.data = <<>> /\ eof_seen)

\* C9 witness: a payload call for 2 bytes returned 2 bytes after a 9-byte
\* header call, with bytes of the next frame retained in the buffer.
C9_Witness ==
    /\ last_call = [n |-> 2, data |-> <<7, 8>>, eof |-> FALSE]
    /\ Len(delivered) = 11
    /\ buffer # <<>>
    /\ rxPc = "top"

\* C10: the receive loop takes a header or payload read for connection loss
\* only when recv returned zero bytes before the requested bytes had
\* accumulated; a well-formed header declaring length 0 yields an empty
\* payload and the session stays Connected.
C10_LossOnlyOnZeroRead ==
    /\ rx_exit \in {"eof_header", "eof_payload"} => eof_seen
    /\ (~last_call.eof /\ last_call.n = 0 /\ last_call.data = <<>> /\ delivered # <<>>)
          => rx_exit \in {"none", "stop"}

\* a step in which receive_exact(9) returns a header to the receive loop
HeaderStep == rxPc = "header" /\ delivered' # delivered

\* C11: a 9-byte header whose first 4 bytes are not 'SYNC' adds exactly 1 to
\* sync_errors, no payload is read, nothing is dispatched to the display
\* lane, the audio lane or the audio-format slot, and the loop goes on to
\* read the next 9 bytes of the stream as the next header (exactly the 9
\* header bytes are taken off the buffer: no forward scan).
C11_BadMagic ==
    [][ (HeaderStep /\ SubSeq(buffer, 1, 4) # SYNC) =>
          /\ rstats' = [rstats EXCEPT !.sync_errors = @ + 1]
          /\ rxPc' = "top"
          /\ rx_exit' = rx_exit
          /\ buffer' = SubSeq(buffer, 10, Len(buffer))
          /\ delivered' = delivered \o SubSeq(buffer, 1, 9)
          /\ <<frame_queue, rx_audio_queue, audio_info_queue>> =
                <<frame_queue', rx_audio_queue', audio_info_queue'>>
          /\ dispatched' = dispatched
      ]_vars

\* C11 witness: a bad-magic header was counted and the 9 bytes after it were
\* read as the header of the next frame, which was dispatched.
C11_Witness ==
    /\ Len(sent_msgs) = 2
    /\ sent_msgs[1].form = "bad_magic"
    /\ sent_msgs[2] = [form |-> "ok", kind |-> KindA, payload |-> <<7, 8>>]
    /\ rstats.sync_errors = 1
    /\ dispatched = << <<KindA, <<7, 8>>>> >>
    /\ rx_audio_queue = << <<7, 8>> >>

\* the bytes of the stream the receive loop has been handed so far
StreamPos == Len(sent_bytes) - Len(wire) - Len(buffer)

\* C12: once ten consecutive headers with a wrong magic have been read the
\* receive loop has left Connected; a run of fewer than ten followed by a
\* valid header leaves the session Connected with the consecutive count at
\* zero.
C12_TenBadHeadersClose ==
    /\ ( /\ Len(sent_msgs) >= 10
         /\ \A i \in 1..10 : sent_msgs[i] = BadMagicFrame
         /\ Len(delivered) >= 90 )
       => rxPc \in {"exit", "closed"}
    /\ ( /\ Len(sent_msgs) \in 2..10
         /\ \A i \in 1..(Len(sent_msgs) - 1) : sent_msgs[i] = BadMagicFrame
         /\ sent_msgs[Len(sent_msgs)] = ValidAudioFrame
         /\ ~peer_closed
         /\ delivered = sent_bytes )
       => (rxPc \in {"top", "header"} /\ consecutive_errors = 0)

\* the frames sent so far keep the stream framed and do not end the session
NoZeroLength ==
    \A i \in 1..Len(sent_msgs) :
        sent_msgs[i].form = "ok" => sent_msgs[i].payload # <<>>

\* C13: a header with the right magic and a kind byte other than 'V', 'A',
\* 'I' is a framing error: once the loop has handled it, it has been counted
\* in sync_errors, and nothing of it is dispatched.
C13_UnknownKindCounted ==
    ( /\ rxPc = "top"
      /\ NoZeroLength
      /\ delivered = sent_bytes )
    => /\ rstats.sync_errors >=
            Cardinality({i \in 1..Len(sent_msgs) : sent_msgs[i].form = "bad_kind"})
       /\ \A j \in 1..Len(dispatched) : dispatched[j][1] \in {KindV, KindA, KindI}

\* C14: after a header with the right magic that declares more than 10 MiB,
\* the next header is read only once the declared payload bytes have been
\* taken off the stream.
C14_OversizePayloadConsumed ==
    [][ (HeaderStep /\ data_size > 10485760) => StreamPos >= 9 + data_size ]_vars

\* C15: a header with the right magic whose data_size exceeds
\* 10 * 1024 * 1024 adds exactly 1 to packets_dropped, receive_exact is never
\* called with that length (the loop never waits for a payload of more than
\* 10 MiB), nothing is dispatched and the session stays Connected; a
\* data_size of exactly 10 MiB is accepted and its payload is read.
C15_OversizeDropped ==
    [][ /\ (HeaderStep /\ SubSeq(buffer, 1, 4) = SYNC
                       /\ UnpackU32(SubSeq(buffer, 6, 9)) > 10485760) =>
              /\ rstats' = [rstats EXCEPT !.packets_dropped = @ + 1]
              /\ rxPc' = "top"
              /\ rx_exit' = rx_exit
              /\ <<frame_queue, rx_audio_queue, audio_info_queue>> =
                    <<frame_queue', rx_audio_queue', audio_info_queue'>>
              /\ dispatched' = dispatched
        /\ (HeaderStep /\ SubSeq(buffer, 1, 4) = SYNC
                       /\ UnpackU32(SubSeq(buffer, 6, 9)) = 10485760) =>
              /\ rxPc' = "payload"
              /\ data_size' = 10485760
              /\ rstats' = rstats
        /\ rxPc' = "payload" => data_size' <= 10485760
      ]_vars

\* C15 witness: an oversize header was dropped, the session went on, and
\* the payload of a header declaring exactly 10 MiB is being read.
C15_Witness ==
    /\ Len(sent_msgs) = 2
    /\ sent_msgs[1].form = "oversize"
    /\ sent_msgs[2].form = "at_cap"
    /\ rstats.packets_dropped = 1
    /\ rxPc = "payload"
    /\ data_size = 10485760
    /\ dispatched = <<>>

\* the order of candidates as the specification gives it
FixedOrder(r, c) ==
    << <<r, c>>, <<44100, c>>, <<48000, c>>, <<r, 2>>, <<44100, 2>>, <<48000, 2>> >>

\* C16: for every announced (r, c) that triggered a reconfiguration and every
\* set of configurations the output accepts, the candidates were tried in
\* the order (r,c), (44100,c), (48000,c), (r,2), (44100,2), (48000,2), the
\* trying stopped at the first accepted one, and the active configuration is
\* exactly that candidate.
C16_FirstAcceptedCandidate ==
    (neg_req # <<>> /\ pbPc # "exit") =>
        LET order == FixedOrder(neg_req[1], neg_req[2])
            acc == {i \in 1..6 : order[i] \in accepts}
        IN  /\ \E n \in 1..6 : tried = SubSeq(order, 1, n)
            /\ acc # {} =>
                 /\ acc \cap (1..Len(tried)) = {Len(tried)}
                 /\ stream = [state |-> "open", rate |-> order[Len(tried)][1],
                              channels |-> order[Len(tried)][2]]
                 /\ <<RATE, CHANNELS>> = order[Len(tried)]
                 /\ stream_configured

\* C16 witness: (22050, 1) was announced to a device that accepts (22050, 2)
\* and (48000, 2) only; three candidates were refused and the fourth is active.
C16_Witness ==
    /\ accepts = { <<22050, 2>>, <<48000, 2>> }
    /\ neg_req = <<22050, 1>>
    /\ Len(tried) = 4
    /\ stream = [state |-> "open", rate |-> 22050, channels |-> 2]

\* a reconfiguration has tried all six candidates and none was accepted
NegotiationFailed ==
    Len(tried) = 6 /\ \A i \in 1..6 : tried[i] \notin accepts

\* the playback thread calls p.open in this step
OpenAttempt ==
    \/ tried' # tried \/ neg_req' # neg_req
    \/ pbPc = "init" /\ ~stream_configured /\ pbPc' # pbPc

\* C17: once a reconfiguration has found none of the six candidates accepted
\* (the first configuration or a later one replacing an open output),
\* playback is disabled for the rest of the session: the thread makes no
\* further stream.write call and no further p.open call; the failure does
\* not stop the session, the receive loop goes on dispatching video frames.
C17_FailedNegotiationDisablesPlayback ==
    [][ /\ NegotiationFailed => (played' = played /\ ~OpenAttempt)
        /\ (NegotiationFailed' /\ ~NegotiationFailed) =>
              (rx_stop' = rx_stop /\ rxPc' = rxPc /\ frame_queue' = frame_queue)
      ]_vars

\* C18: after an AudioInfo whose format differs from the active one has been
\* received, no audio chunk that followed it on the wire is written to the
\* output before the playback thread has taken that announcement and reopened
\* the output, under any interleaving of the receive loop and the thread.
C18_NoChunkBeforeReopen ==
    \A i \in 1..Len(played) :
        played[i].ok =>
            \/ played[i].seen >= played[i].chunk.epoch
            \/ played[i].chunk.fmt = <<played[i].rate, played[i].channels>>

\* C20: once the receive loop has processed the well-formed announcements
\* f1..fk, the latest one fk is either in the single-slot queue or has been
\* taken by the playback thread: it is never lost, and the slot holds no
\* older announcement, under any interleaving.
C20_LatestInfoKept ==
    (rxPc = "top" /\ rx_audio_info.seq >= 1) =>
        \/ audio_info_queue = <<rx_audio_info>>
        \/ audio_info_queue = <<>> /\ pb_audio_info = rx_audio_info

\* the ids of a sequence of chunks increase from front to back
Increasing(ids) == \A i, j \in 1..Len(ids) : i < j => ids[i] < ids[j]

\* the chunks handed to stream.write followed by the chunks in the hold buffer
HeldOrder ==
    [i \in 1..(Len(played) + Len(audio_buffer)) |->
        IF i <= Len(played) THEN played[i].chunk.id
        ELSE audio_buffer[i - Len(played)].id]

\* C19: a reconfiguration leaves the hold buffer as it is; a chunk leaves the
\* buffer only from the front and only into stream.write, which succeeds on
\* an open output, so the held chunks are played in their original order
\* after the reopen; the buffer never holds more than 20 chunks, and a chunk
\* is dropped only by an append to a buffer of 20, oldest first.
C19_HoldBufferKept ==
    [][ /\ Len(audio_buffer') <= 20
        /\ (pbPc = "info" /\ pbPc' # pbPc) => audio_buffer' = audio_buffer
        /\ audio_buffer' # audio_buffer =>
             \/ /\ rx_audio_queue # <<>>
                /\ audio_buffer' =
                      IF Len(audio_buffer) < 20
                        THEN Append(audio_buffer, Head(rx_audio_queue))
                        ELSE Append(Tail(audio_buffer), Head(rx_audio_queue))
                /\ played' = played
             \/ /\ audio_buffer # <<>>
                /\ audio_buffer' = Tail(audio_buffer)
                /\ Len(played') = Len(played) + 1
                /\ played'[Len(played')].chunk = Head(audio_buffer)
                /\ stream.state = "open" => played'[Len(played')].ok
        /\ Increasing(HeldOrder')
      ]_vars

\* C19 witness: one chunk was played at the default format, nine more were
\* in the hold buffer when the output was reopened at (22050, 1), and they
\* are still there.
C19_Witness ==
    /\ pbPc = "init"
    /\ neg_req = <<22050, 1>>
    /\ stream = [state |-> "open", rate |-> 22050, channels |-> 1]
    /\ Len(played) = 1
    /\ played[1].rate = 44100
    /\ Len(audio_buffer) = 9
    /\ \A i \in 1..9 : audio_buffer[i].id = i + 1

\* every element of a sequence of ids is smaller than the next one
Ascending(ids) == \A i \in 1..(Len(ids) - 1) : ids[i] < ids[i + 1]

\* C21: within each sender lane the packets written to the socket appear in
\* the order in which they were enqueued (a packet's id is the number of the
\* send_video / send_audio call that enqueued it), whatever the interleaving
\* of enqueue, eviction and drain steps; what waits in a lane or in sendall
\* was enqueued after everything already written from that lane.
C21_LaneFifo ==
    /\ Ascending(video_written \o
                  (IF inflight[1] = "video" THEN <<inflight[2]>> ELSE <<>>) \o
                  video_queue)
    /\ Ascending(audio_written \o
                  (IF inflight[1] = "audio" THEN <<inflight[2]>> ELSE <<>>) \o
                  audio_queue)

\* C21 witness: both lanes have written several packets, the audio lane
\* after an eviction.
C21_Witness ==
    /\ Len(video_written) >= 3
    /\ Len(audio_written) >= 3
    /\ stats.audio_dropped >= 1
    /\ audio_written[Len(audio_written)] > 30

\* C22: an iteration of the drain loop polls the audio lane first; when the
\* poll finds a packet the loop writes it and starts the next iteration
\* without taking anything from the video lane; the video dequeue is
\* attempted only in an iteration whose audio poll found the lane empty, and
\* such an iteration takes and writes at most one video packet before the
\* next audio poll.
C22_DrainIteration ==
    [][ /\ Len(video_queue') < Len(video_queue) =>
              /\ drainPc = "video_wait" /\ drainPc' = "video_write"
              /\ video_queue' = Tail(video_queue)
        /\ (drainPc = "poll" /\ drainPc' = "audio_write") =>
              /\ audio_queue # <<>>
              /\ video_queue' = video_queue
        /\ (drainPc = "audio_write" /\ drainPc' # drainPc) =>
              /\ drainPc' \in {"poll", "failed"}
              /\ video_queue' = video_queue
              /\ video_written' = video_written
        /\ (drainPc = "poll" /\ drainPc' = "video_wait") => audio_queue = <<>>
        /\ (drainPc = "video_wait" /\ drainPc' # drainPc) =>
              drainPc' \in {"poll", "video_write"}
        /\ (drainPc = "video_write" /\ drainPc' # drainPc) =>
              /\ drainPc' \in {"poll", "failed"}
              /\ Len(video_written') <= Len(video_written) + 1
        /\ Len(video_written') > Len(video_written) => drainPc = "video_write"
      ]_vars

\* C22 witness: two audio packets were written one after the other while a
\* video frame was waiting in its lane, and the loop is back at the audio poll.
C22_Witness ==
    /\ drainPc = "poll"
    /\ audio_written = <<1, 2>>
    /\ video_written = <<>>
    /\ video_queue = <<1>>
    /\ video_calls = 1
    /\ audio_calls = 2

\* a step in which receive_exact(data_size) returns a payload to the loop
PayloadStep == rxPc = "payload" /\ delivered' # delivered

\* C26: the receive loop dispatches by kind and touches no other lane: a 'V'
\* message can only change the display lane, an 'A' message only the audio
\* playback lane, an 'I' message only the audio-format slot; the header
\* read changes none of the three.
C26_DispatchByKind ==
    [][ /\ (PayloadStep /\ data_type = KindV) =>
              <<rx_audio_queue', audio_info_queue'>> = <<rx_audio_queue, audio_info_queue>>
        /\ (PayloadStep /\ data_type = KindA) =>
              <<frame_queue', audio_info_queue'>> = <<frame_queue, audio_info_queue>>
        /\ (PayloadStep /\ data_type = KindI) =>
              <<frame_queue', rx_audio_queue'>> = <<frame_queue, rx_audio_queue>>
        /\ (PayloadStep /\ data_type \notin {KindV, KindA, KindI}) =>
              laneVars' = laneVars
        /\ rxPc # "payload" =>
              <<rx_audio_queue', audio_info_queue'>> = <<rx_audio_queue, audio_info_queue>>
        /\ (rxPc # "payload" /\ frame_queue' # frame_queue) =>
              frame_queue' = Tail(frame_queue)
      ]_vars

\* C26 witness: an audio chunk and a video frame are queued and an AudioInfo
\* message has been dispatched after them: the slot holds its format and
\* both lanes still hold what they held.
C26_Witness ==
    /\ Len(sent_msgs) = 2
    /\ sent_msgs[1] = [form |-> "ok", kind |-> KindA, payload |-> <<7, 8>>]
    /\ sent_msgs[2].kind = KindI
    /\ Len(dispatched) = 2
    /\ rx_audio_queue = << <<7, 8>> >>
    /\ audio_info_queue = << [rate |-> 48000, channels |-> 2, bits |-> 16] >>

\* C23: whatever ended the receive loop (EOF on a header or payload read, too
\* many errors, the stop event set by a user quit), the cleanup sets the stop
\* event first, then lets the join of the display thread and the join of the
\* playback thread return, and only then closes the client socket; a new
\* connection is accepted only with the previous client socket closed.
C23_TeardownOrder ==
    [][ /\ (rxPc = "exit" /\ rxPc' # rxPc) =>
               (rxPc' = "stopped" /\ rx_stop' /\ client_sock' = "open")
        /\ (rxPc' = "joined_display" /\ rxPc' # rxPc) =>
               (rxPc = "stopped" /\ rx_stop /\ client_sock' = "open")
        /\ (rxPc' = "joined_audio" /\ rxPc' # rxPc) =>
               (rxPc = "joined_display" /\ rx_stop /\ client_sock' = "open")
        /\ (client_sock = "open" /\ client_sock' = "closed") =>
               (rxPc = "joined_audio" /\ rx_stop)
        /\ (rxPc' = "closed" /\ rxPc' # rxPc) => client_sock' = "closed"
        /\ (sessions' # sessions) => client_sock = "closed" ]_vars

C23_Witness ==
    /\ sessions = 2 /\ rxPc = "closed" /\ client_sock = "closed"
    /\ rx_exit = "stop" /\ rstats.video_received = 1

\* C24: when accept returns for the next sender, the display and playback
\* threads of the previous session have ended and its client socket is closed.
C24_OneSessionAtAccept ==
    [][ (sessions' # sessions) =>
            (Running = {} /\ client_sock = "closed") ]_vars

\* C25: once the stop event of a session is set, the session reaches the end
\* of its cleanup (threads left, socket closed), also when the peer is silent.
C25_CancelReachesClosed == rx_stop ~> (rxPc = "closed")

\* C28: when the connect of stream_to_receiver fails (refused or timed out)
\* after the capture was started, the function has, when it is left, stopped
\* the capture device, closed the socket and returned False.
C28_ConnectFailureCleansUp ==
    (setupPc = "returned" /\ connect_res \in {"refused", "timeout"}) =>
        (camera = "stopped" /\ snd_sock = "closed" /\ snd_ret = "False")

\* C27: a step inside a sender session leaves each of video_sent, audio_sent,
\* video_dropped, audio_dropped as it is or adds one; the step that makes a
\* new DualNetworkSender sets the four counters to zero and both lanes empty;
\* the step that accepts a new connection on the receiver sets the receiver's
\* counters to zero and its three queues empty.
C27_CountersPerSession ==
    [][ /\ IF setupPc # "connected" /\ setupPc' = "connected"
             THEN /\ \A c \in DOMAIN stats : stats'[c] = 0
                  /\ video_queue' = <<>> /\ audio_queue' = <<>>
                  /\ inflight' = NoPacket
             ELSE \A c \in DOMAIN stats : stats'[c] \in {stats[c], stats[c] + 1}
        /\ (sessions' # sessions) =>
               /\ \A c \in DOMAIN rstats : rstats'[c] = 0
               /\ frame_queue' = <<>> /\ rx_audio_queue' = <<>>
               /\ audio_info_queue' = <<>> /\ buffer' = <<>> ]_vars

C27_Witness ==
    /\ snd_sessions = 2 /\ sessions = 2
    /\ stats.video_sent >= 1 /\ stats.audio_sent >= 1
    /\ stats.video_dropped >= 1 /\ stats.audio_dropped >= 1
    /\ rstats.video_received = 1

\* the output that is open now: its (rate, channels), or none
ActiveConfig ==
    IF stream.state = "open" THEN <<stream.rate, stream.channels>> ELSE <<0, 0>>

AudioStopped ==
    \/ audioPc = "exit"
    \/ audio_calls >= MaxFairAudio /\ audioPc = "between"

\* C29: a poll that finds the audio lane non-empty takes audio and leaves the
\* video lane as it is, however many frames wait there, and the audio write
\* goes back to the poll: while every poll finds audio, no video message is
\* written.  Once the audio thread has stopped, every message in the video
\* lane is written in the end, unless a write fails or the sender is stopped.
C29_NoFairnessToVideo ==
    /\ [][ /\ (drainPc = "poll" /\ audio_queue # <<>> /\ drainPc' # drainPc) =>
                  /\ drainPc' \in {"audio_write", "exit"}
                  /\ video_queue' = video_queue /\ video_written' = video_written
           /\ (drainPc = "audio_write" /\ drainPc' # drainPc) =>
                  /\ drainPc' \in {"poll", "failed"}
                  /\ video_queue' = video_queue /\ video_written' = video_written
         ]_vars
    /\ \A k \in 1..MaxFairVideo :
          (AudioStopped /\ InSeq(k, video_queue)) ~>
              (InSeq(k, video_written) \/ drainPc \in {"failed", "exit"})

C29_Witness ==
    /\ video_queue = <<1, 2, 3, 4, 5>> /\ stats.video_dropped >= 1
    /\ video_written = <<>> /\ inflight = NoPacket
    /\ Len(audio_written) = MaxFairAudio
    /\ drainPc = "poll"

\* C31: the connection of the probe (accepted, then closed by the sender with
\* no byte sent) dispatches nothing and changes no counter of the receiver;
\* once the sender has closed it, the receiver ends the session, comes back
\* to accept and accepts the stream connection.
C31_ProbeSession ==
    /\ [](sessions = 1 =>
            /\ dispatched = <<>> /\ delivered = <<>>
            /\ \A c \in DOMAIN rstats : rstats[c] = 0
            /\ frame_queue = <<>> /\ rx_audio_queue = <<>> /\ audio_info_queue = <<>>)
    /\ (sessions = 1 /\ peer_closed) ~> (sessions = 2 /\ client_sock = "open")

C31_Witness ==
    /\ sessions = 2 /\ client_sock = "open" /\ rstats.video_received = 1
    /\ stale = {}

\* messages the drain thread has taken from a lane and not written: the
\* sendall is in progress, or it has raised
Taken(lane) == IF inflight[1] = lane THEN 1 ELSE 0

\* C32: in every state of a sender session the send_video calls made so far
\* are video_sent + video_dropped + the frames in the video lane + the frame
\* the drain thread has taken and not written; the calls that returned True
\* (counted by frame_count) are exactly those not counted in video_dropped.
C32_VideoAccounting ==
    /\ video_calls = stats.video_sent + stats.video_dropped
                        + Len(video_queue) + Taken("video")
    /\ frame_count = video_calls - stats.video_dropped
    /\ (videoRes = "False") => stats.video_dropped >= 1

C32_Witness ==
    /\ stats.video_sent = 1 /\ stats.video_dropped = 1
    /\ Len(video_queue) = 3 /\ inflight = <<"video", 2>>
    /\ drainPc = "failed" /\ video_calls = 6

\* C33: whenever no send_audio call is under way, the send_audio calls made so
\* far are audio_sent + audio_dropped + the packets in the audio lane + the
\* packet the drain thread has taken and not written: no packet disappears
\* without being counted in audio_dropped.
C33_AudioAccounting ==
    (audioPc \in {"between", "exit"}) =>
        audio_calls = stats.audio_sent + stats.audio_dropped
                        + Len(audio_queue) + Taken("audio")

\* C34: the eviction step of send_audio (get_nowait after queue.Full) removes
\* a packet only from a lane that is full at that moment.
C34_EvictOnlyWhenFull ==
    [][ (audioPc = "evict_get" /\ audioPc' = "evict_put") =>
            Len(audio_queue) = AudioMaxsize ]_vars

\* C35: the AudioInfo packet (the first send_audio call of the audio thread)
\* is never evicted: whenever an audio chunk has been written to the socket,
\* the first packet written from the audio lane was the AudioInfo packet.
C35_InfoWrittenFirst ==
    audio_written # <<>> => audio_written[1] = 1

\* C36: an evaluation lowers the quality only with more than 5 frames dropped
\* so far, and from the first dropped frame on no step raises the quality
\* and the drop count stays above zero: once lowered, or once a frame was
\* dropped, the quality is never raised again in the session.
C36_QualityOneWay ==
    [][ /\ (quality' < quality) => stats'.video_dropped > 5
        /\ (stats.video_dropped >= 1) =>
               (quality' <= quality /\ stats'.video_dropped >= 1) ]_vars

C36_Witness ==
    /\ evals = 4 /\ quality = 77 /\ stats.video_dropped = 6
    /\ window_base = 6

\* the playback thread takes an announcement from the slot in this step
InfoTaken == pbPc = "info" /\ pbPc' # pbPc /\ audio_info_queue # <<>>

\* the announcement in the slot has the (rate, channels) of the one the
\* playback thread took last
SameAsLast ==
    /\ pb_audio_info # NoInfo
    /\ Head(audio_info_queue).rate = pb_audio_info.rate
    /\ Head(audio_info_queue).channels = pb_audio_info.channels

\* C37: when the playback thread takes an announcement with the same (rate,
\* channels) as the one it took last, and an output is open, the output is
\* neither closed nor reopened, whether the open configuration is the
\* announced one or a fallback.
C37_RepeatedInfoIdempotent ==
    [][ (InfoTaken /\ SameAsLast /\ stream.state = "open") =>
            (reopens' = reopens /\ stream' = stream) ]_vars

\* the open output has exactly the (rate, channels) of the last announcement
ExactOpen ==
    /\ stream.state = "open"
    /\ stream.rate = pb_audio_info.rate /\ stream.channels = pb_audio_info.channels

\* C37 (amended): a repeated announcement leaves the output untouched when the
\* open configuration is the announced one; when the first announcement was
\* satisfied by a fallback, the repetition closes the output and reopens it,
\* and the same fallback configuration is open afterwards.
C37_RepeatIdempotentWhenExact ==
    [][ (InfoTaken /\ SameAsLast /\ stream.state = "open") =>
            IF ExactOpen THEN reopens' = reopens /\ stream' = stream
                         ELSE reopens' = reopens + 1 /\ stream' = stream ]_vars

C37_Witness ==
    /\ played # <<>> /\ played[1].seen = 1 /\ played[1].ok
    /\ played[1].rate = 22050 /\ played[1].channels = 1
    /\ pb_audio_info.seq = 2
    /\ pb_audio_info.rate = 22050 /\ pb_audio_info.channels = 1
    /\ reopens = 1
    /\ stream = [state |-> "open", rate |-> 22050, channels |-> 1]

\* the receive loop hands over the payload of an 'I' message whose length is
\* not the 12 bytes of three little-endian u32
ShortInfoTaken ==
    /\ rxPc = "payload" /\ rxPc' # rxPc
    /\ data_type = KindI /\ data_size # 12

\* C38: an 'I' message whose payload is not exactly 12 bytes is ignored: the
\* audio-format slot keeps its content, no counter changes, no lane receives
\* anything and the receive loop goes back to read the next header.
C38_MalformedInfoIgnored ==
    [][ ShortInfoTaken =>
            /\ audio_info_queue' = audio_info_queue
            /\ rstats' = rstats
            /\ frame_queue' = frame_queue
            /\ rx_audio_queue' = rx_audio_queue
            /\ rxPc' = "top" ]_vars

(***************************************************************************)
(* SettingsManager: the settings dictionary, its defaults and the file     *)
(***************************************************************************)
MaxIPs == 6
MaxSettingsCalls == 6
HistoryKeep == 5

\* the addresses a caller passes; update_connection may also be called
\* without one
IPs == 1..MaxIPs

Contains(seq, x) == \E i \in 1..Len(seq) : seq[i] = x

\* history[-5:]
LastN(seq, n) ==
    IF Len(seq) > n THEN SubSeq(seq, Len(seq) - n + 1, Len(seq)) ELSE seq

\* json.dump(self.settings, f): the values, no object identity
Saved(st) ==
    [exists |-> TRUE, receiver_ip |-> st.receiver_ip,
     first_run |-> st.first_run, ip_history |-> st.ip_history]

\* save_settings: the file holds the settings, or open() raised and the file
\* is as before (the method returns False and the caller ignores it)
save_settings(st, ok) ==
    config_file' = IF ok THEN Saved(st) ELSE config_file

\* the settings and the defaults after add_to_history(ip) on (st, d):
\* history.append(ip) changes the list in place, so it changes the defaults'
\* list when the two are one object; history[-5:] is a new list
HistoryAdded(st, d, ip) ==
    IF Contains(st.ip_history, ip)
      THEN [st |-> st, d |-> d]
      ELSE LET appended == Append(st.ip_history, ip)
               d2 == IF st.shared THEN [d EXCEPT !.ip_history = appended] ELSE d
           IN  IF Len(appended) > HistoryKeep
                 THEN [st |-> [st EXCEPT !.ip_history = LastN(appended, HistoryKeep),
                                         !.shared = FALSE],
                       d |-> d2]
                 ELSE [st |-> [st EXCEPT !.ip_history = appended], d |-> d2]

\* one more call on the manager
Called ==
    /\ sm_calls < MaxSettingsCalls
    /\ sm_calls' = sm_calls + 1

\* a later run of the program: SettingsManager() builds new defaults and
\* loads the file
SM_New ==
    /\ Called
    /\ defaults' = FreshDefaults
    /\ settings' = load_settings(FreshDefaults, config_file)
    /\ sm_op' = "__init__"
    /\ UNCHANGED config_file
    /\ UNCHANGED <<senderVars, recvVars, pbVars, sessVars>>

\* update_connection(ip=...): the other arguments set keys no claim reads
update_connection(ip, ok) ==
    /\ Called
    /\ LET st1 == IF ip # NoIp THEN [settings EXCEPT !.receiver_ip = ip]
                               ELSE settings
           r == IF ip # NoIp THEN HistoryAdded(st1, defaults, ip)
                             ELSE [st |-> st1, d |-> defaults]
       IN  /\ settings' = r.st
           /\ defaults' = r.d
    /\ save_settings(settings', ok)
    /\ sm_op' = "update_connection"
    /\ UNCHANGED <<senderVars, recvVars, pbVars, sessVars>>

add_to_history(ip) ==
    /\ Called
    /\ LET r == HistoryAdded(settings, defaults, ip)
       IN  /\ settings' = r.st
           /\ defaults' = r.d
    /\ sm_op' = "add_to_history"
    /\ UNCHANGED config_file
    /\ UNCHANGED <<senderVars, recvVars, pbVars, sessVars>>

mark_setup_complete(ok) ==
    /\ Called
    /\ settings' = [settings EXCEPT !.first_run = FALSE]
    /\ save_settings(settings', ok)
    /\ sm_op' = "mark_setup_complete"
    /\ UNCHANGED defaults
    /\ UNCHANGED <<senderVars, recvVars, pbVars, sessVars>>

\* self.settings = self.defaults.copy(); self.save_settings()
clear_settings(ok) ==
    /\ Called
    /\ settings' = DefaultsCopy(defaults)
    /\ save_settings(settings', ok)
    /\ sm_op' = "clear_settings"
    /\ UNCHANGED defaults
    /\ UNCHANGED <<senderVars, recvVars, pbVars, sessVars>>

SettingsNext ==
    \/ SM_New
    \/ \E ip \in IPs \cup {NoIp}, ok \in BOOLEAN : update_connection(ip, ok)
    \/ \E ip \in IPs : add_to_history(ip)
    \/ \E ok \in BOOLEAN : mark_setup_complete(ok)
    \/ \E ok \in BOOLEAN : clear_settings(ok)

SpecSettings == Init /\ [][SettingsNext]_vars

\* C40: after any sequence of update_connection and add_to_history calls,
\* clear_settings leaves receiver_ip None, first_run True and ip_history the
\* empty list.
C40_ClearRestoresDefaults ==
    sm_op = "clear_settings" =>
        /\ settings.receiver_ip = NoIp
        /\ settings.first_run = TRUE
        /\ settings.ip_history = <<>>

(***************************************************************************)
(* The receiver lanes under interleaving: the dispatch of a video frame    *)
(* and of an audio chunk split at each queue operation, with the display   *)
(* and playback threads consuming in between.  The two lanes are separate  *)
(* queues with separate consumers; the session shown is one whose audio    *)
(* starts after its last video frame.                                      *)
(***************************************************************************)
MaxLaneChunks == 31
MaxLaneFrames == 6

\* the chunk the receive loop holds while it is inside the b'A' branch
ChunkInHand ==
    [id |-> rstats.audio_received, epoch |-> rx_audio_info.seq,
     fmt |-> <<rx_audio_info.rate, rx_audio_info.channels>>]

\* q.put_nowait(x): queue.Full is raised when the queue holds maxsize items
\* (and is swallowed by the enclosing except)
PutNowait(q, x, maxsize) == IF Len(q) < maxsize THEN Append(q, x) ELSE q

\* data_type == b'V': stats['video_received'] += 1; the frame decodes;
\* if not frame_queue.full(): ... else: stats['packets_dropped'] += 1
RX_VideoTest(max) ==
    /\ rxPc = "top" /\ ~rx_stop
    /\ rstats.video_received < max
    /\ IF Len(frame_queue) < FrameMaxsize
         THEN /\ rstats' = [rstats EXCEPT !.video_received = @ + 1]
              /\ rxPc' = "video_put"
         ELSE /\ rstats' = [rstats EXCEPT !.video_received = @ + 1,
                                          !.packets_dropped = @ + 1]
              /\ UNCHANGED rxPc
    /\ UNCHANGED <<laneVars, rx_audio_info>>
    /\ UNCHANGED <<sessVars, cfgVars, senderVars, pbRxFrame, pbLocal>>

\* frame_queue.put_nowait(frame)
RX_VideoPut ==
    /\ rxPc = "video_put"
    /\ frame_queue' = PutNowait(frame_queue, <<7, 8>>, FrameMaxsize)
    /\ rxPc' = "top"
    /\ UNCHANGED <<rstats, rx_audio_queue, audio_info_queue, rx_audio_info>>
    /\ UNCHANGED <<sessVars, cfgVars, senderVars, pbRxFrame, pbLocal>>

\* data_type == b'A': stats['audio_received'] += 1; if not audio_queue.full()
RX_AudioTest(max) ==
    /\ rxPc = "top" /\ ~rx_stop
    /\ rstats.audio_received < max
    /\ rstats' = [rstats EXCEPT !.audio_received = @ + 1]
    /\ rxPc' = IF Len(rx_audio_queue) < RxAudioMaxsize THEN "audio_put"
                                                        ELSE "audio_evict"
    /\ UNCHANGED <<laneVars, rx_audio_info>>
    /\ UNCHANGED <<sessVars, cfgVars, senderVars, pbRxFrame, pbLocal>>

\* audio_queue.put_nowait(data) of the not-full branch
RX_AudioPut ==
    /\ rxPc = "audio_put"
    /\ rx_audio_queue' = PutNowait(rx_audio_queue, ChunkInHand, RxAudioMaxsize)
    /\ rxPc' = "top"
    /\ UNCHANGED <<rstats, frame_queue, audio_info_queue, rx_audio_info>>
    /\ UNCHANGED <<sessVars, cfgVars, senderVars, pbRxFrame, pbLocal>>

\* audio_queue.get_nowait() of the full branch; queue.Empty is swallowed by
\* `except: pass`, which also skips the put and the counter
RX_AudioEvictGet ==
    /\ rxPc = "audio_evict"
    /\ IF rx_audio_queue # <<>>
         THEN /\ rx_audio_queue' = Tail(rx_audio_queue)
              /\ rxPc' = "audio_evict_put"
         ELSE /\ rxPc' = "top"
              /\ UNCHANGED rx_audio_queue
    /\ UNCHANGED <<rstats, frame_queue, audio_info_queue, rx_audio_info>>
    /\ UNCHANGED <<sessVars, cfgVars, senderVars, pbRxFrame, pbLocal>>

\* audio_queue.put_nowait(data); stats['packets_dropped'] += 1
RX_AudioEvictPut ==
    /\ rxPc = "audio_evict_put"
    /\ rx_audio_queue' = PutNowait(rx_audio_queue, ChunkInHand, RxAudioMaxsize)
    /\ rstats' = [rstats EXCEPT !.packets_dropped = @ + 1]
    /\ rxPc' = "top"
    /\ UNCHANGED <<frame_queue, audio_info_queue, rx_audio_info>>
    /\ UNCHANGED <<sessVars, cfgVars, senderVars, pbRxFrame, pbLocal>>

LanesNext ==
    \/ (rstats.audio_received = 0 /\ RX_VideoTest(MaxLaneFrames))
    \/ RX_VideoPut
    \/ RX_AudioTest(MaxLaneChunks) \/ RX_AudioPut
    \/ RX_AudioEvictGet \/ RX_AudioEvictPut
    \/ Disp_Top \/ Disp_Timeout \/ Disp_Show(FALSE)
    \/ \E caps \in HoldCaps : PB_Start(caps)
    \/ PB_Top \/ PB_InfoEmpty \/ PB_Init \/ PB_Fill \/ PB_Play

SpecLanes == Init /\ [][LanesNext]_vars

\* the receive loop leaves the b'A' branch
AudioDispatched ==
    /\ rxPc \in {"audio_put", "audio_evict", "audio_evict_put"}
    /\ rxPc' = "top"

LastOf(q) == q[Len(q)]

\* C39: under any interleaving of the receive loop with the display and
\* playback threads the frame lane holds at most 5 frames and the audio lane
\* at most 30 chunks; the chunk the loop received is the newest of the audio
\* lane when the loop leaves the branch, and the branch that saw a full lane
\* removes one chunk and counts one drop.
C39_LanesBoundedChunkKept ==
    /\ [](Len(frame_queue) <= FrameMaxsize /\ Len(rx_audio_queue) <= RxAudioMaxsize)
    /\ [][ AudioDispatched =>
             /\ rx_audio_queue' # <<>>
             /\ LastOf(rx_audio_queue') = ChunkInHand
             /\ (rxPc = "audio_evict_put" =>
                    rstats'.packets_dropped = rstats.packets_dropped + 1) ]_vars

====
